---------------------------- MODULE Spec2Model ----------------------------
(***************************************************************************)
(* A model of the presswerk print-job delivery engine:                     *)
(*   - the per-printer circuit breaker   (presswerk-print/src/health.rs)   *)
(*   - the protocol downgrade chain      (presswerk-print/src/protocol.rs) *)
(*   - the retry classifier              (presswerk-print/src/retry.rs)    *)
(*   - the job store and the send task   (presswerk-print/src/queue.rs,    *)
(*     presswerk-app/src/services/app_services.rs, ipp_server.rs)          *)
(*   - the IPP wire codec and the print server's connection handler        *)
(*     (presswerk-print/src/ipp_server.rs)                                 *)
(* Each part has its own specification over the shared variables; the      *)
(* variables of the other parts stay at their initial values.              *)
(***************************************************************************)
EXTENDS Integers, Sequences, FiniteSets, TLC

VARIABLES
    \* ---- health.rs ----
    printers,       \* HealthTracker.printers: printer URI -> PrinterHealth
    now,            \* the monotonic clock read by Instant::now(), in seconds
    hist,           \* per URI, the history of the HealthTracker calls made for it
    \* ---- protocol.rs ----
    probeOk,        \* the printer: which protocol's probe it answers successfully
    base_port,      \* find_best_protocol's argument
    fbPc,           \* where the call of find_best_protocol stands
    fbIdx,          \* the position of its loop in PrintProtocol::chain()
    fbResult,       \* what it returned
    probeLog,       \* the probes it has started and their results, in order
    \* ---- retry.rs ----
    retryErr,       \* should_retry's argument err
    retryAttempt,   \* its argument attempt
    retryConfig,    \* its argument config
    retryPc,        \* "call" before the call, "done" after it
    retryDecision,  \* the RetryDecision it returned
    \* ---- queue.rs, app_services.rs, ipp_server.rs ----
    jobs,           \* the jobs table of the JobQueue: JobId -> PrintJob
    nextJob,        \* the JobIds handed out so far (JobId::new() is fresh)
    utc,            \* the wall clock read by Utc::now() (it stands still here)
    task,           \* the send tasks print_document spawned: JobId -> position
    uiJobs,         \* AppState.jobs: the job list the Jobs page last loaded
    ipp_to_internal,  \* SharedState.ipp_to_internal: IPP job-id -> JobId
    next_ipp_job_id,  \* SharedState.next_ipp_job_id
    lastChange,     \* the most recent write of a stored job's status
    sendLog,        \* per job, the errors of its failed transmissions, in order
    \* ---- ipp_server.rs: the wire codec ----
    codecPc,        \* where the codec run stands: building, received, parsed
    resp,           \* the IppResponseBuilder: buf and in_group
    calls,          \* the builder calls made so far, in order
    wire,           \* the bytes handed to parse_ipp_request
    parsed,         \* what parse_ipp_request returned
    \* ---- ipp_server.rs: the connections ----
    conn,           \* per handler task, the state of its handle_connection
    accepted,       \* the number of connections the accept loop has accepted
    returnedIds,    \* the job-ids that Print-Job success responses carried
    \* ---- queue.rs: calls of the JobQueue ----
    storeCall,      \* the most recent JobQueue call and what it returned
    \* ---- app_services.rs: the documents directory ----
    documents,      \* the content store: hash -> the bytes of the file
    \* ---- ipp_server.rs: IppServer start and stop ----
    ippServer,      \* IppServer.status, the Notify permit, the accept loop
                    \* task and the stop() call
    \* ---- ipp_client.rs: a call of the IppClient ----
    rpc,            \* the operation, where it stands, the seconds it has waited
    \* ---- ipp_server.rs: the connection tasks, step by step ----
    net             \* the two locks' holders, active_connections, and per
                    \* task its peer's stream and where the task stands

healthVars == <<printers, now, hist>>
protoVars == <<probeOk, base_port, fbPc, fbIdx, fbResult, probeLog>>
retryVars == <<retryErr, retryAttempt, retryConfig, retryPc, retryDecision>>
jobVars == <<jobs, nextJob, utc, task, uiJobs, ipp_to_internal, next_ipp_job_id,
             lastChange, sendLog>>

codecVars == <<codecPc, resp, calls, wire, parsed>>
serverVars == <<conn, accepted, returnedIds>>

restVars == <<storeCall, documents, ippServer, rpc, net>>

vars == <<healthVars, protoVars, retryVars, jobVars, codecVars, serverVars,
          restVars>>

\* Option::None for the Option<Instant> fields
None == 0 - 1

(***************************************************************************)
(* Bounds of the model                                                     *)
(***************************************************************************)
\* the clock stops advancing at MaxTime seconds
MaxTime == 150
\* the clock advances in steps of TickStep seconds
TickStep == 30
\* record_failure is no longer called once a printer has MaxFailures failures
MaxFailures == 5

\* the printer URIs the tracker is asked about
Endpoints == {"ipp://a:631/", "ipp://b:631/"}

(***************************************************************************)
(* The components at rest, for the specifications that do not run them     *)
(***************************************************************************)
ProtoIdle ==
    /\ probeOk = <<>>
    /\ base_port = 0
    /\ fbPc = "idle"
    /\ fbIdx = 0
    /\ fbResult = "none"
    /\ probeLog = <<>>

RetryIdle ==
    /\ retryErr = [variant |-> "none"]
    /\ retryAttempt = 0
    /\ retryConfig = [max_retries |-> 0, base_delay |-> 0, max_delay |-> 0]
    /\ retryPc = "idle"
    /\ retryDecision = [kind |-> "none"]

\* an empty job queue, no job submitted, the server's id counter at 1
JobsIdle ==
    /\ jobs = <<>>
    /\ nextJob = 1
    /\ utc = 0
    /\ task = <<>>
    /\ uiJobs = <<>>
    /\ ipp_to_internal = <<>>
    /\ next_ipp_job_id = 1
    /\ lastChange = [by |-> "none", job |-> 0, from |-> "none", to |-> "none"]
    /\ sendLog = <<>>

\* no codec run
CodecIdle ==
    /\ codecPc = "idle"
    /\ resp = [buf |-> <<>>, in_group |-> FALSE]
    /\ calls = <<>>
    /\ wire = <<>>
    /\ parsed = [kind |-> "none"]

\* the tasks that handle connections at the same time
Handlers == {"h1", "h2"}

\* a handler task with no connection
NoConnection ==
    [pc |-> "idle", peer |-> "", buf |-> <<>>, enveloped |-> FALSE,
     client |-> [wellformed |-> FALSE, operation_id |-> 0, request_id |-> 0,
                 document_data |-> <<>>],
     request |-> [kind |-> "none"], job_id |-> 0, ipp_job_id |-> 0,
     outcome |-> "", response |-> <<>>, written |-> <<>>]

\* no connection accepted
ServerIdle ==
    /\ conn = [h \in Handlers |-> NoConnection]
    /\ accepted = 0
    /\ returnedIds = {}

\* no JobQueue call made
StoreIdle == storeCall = [op |-> "none"]

\* IppServer::new: Stopped, no permit in shutdown_signal, no accept loop task
IppServer_new ==
    [status |-> "Stopped", permit |-> FALSE, accept_loop |-> "none",
     stop |-> "idle"]

\* the server after start(): Running, the accept loop in its select!
ServerRunning ==
    ippServer = [IppServer_new EXCEPT !.status = "Running",
                                      !.accept_loop = "select"]

\* no IppClient call made
ClientIdle == rpc = [pc |-> "idle"]

\* the documents directory holds no file
NoDocuments == documents = <<>>

\* a handler slot with no connection task
NoTask ==
    [pc |-> "none", op |-> "none", total |-> 0, closes |-> FALSE, sent |-> 0,
     open |-> FALSE, buf |-> 0, plan |-> <<>>, answer |-> "none",
     job |-> FALSE, response |-> "none", result |-> "none"]

\* no connection task, both locks free, active_connections 0
NetIdle ==
    net = [queue |-> "none", map |-> "none", active_connections |-> 0,
           task |-> [h \in Handlers |-> NoTask]]

\* the queue is not called, the server is not started, the client not used
RestIdle ==
    /\ StoreIdle
    /\ ippServer = IppServer_new
    /\ ClientIdle
    /\ NoDocuments
    /\ NetIdle

(***************************************************************************)
(* health.rs : HealthTracker                                               *)
(***************************************************************************)
CircuitStates == {"Closed", "Open", "HalfOpen"}

\* HealthTracker::new: failure_threshold
failure_threshold == 3

\* impl Default for PrinterHealth
DefaultHealth ==
    [state |-> "Closed", consecutive_failures |-> 0, opened_at |-> None,
     last_success |-> None, last_error |-> "none"]

\* cooldown_duration without the longer cooldowns of repeated failures
cooldown_duration_flat(failures) == 30

\* Calculate cooldown duration based on failure count (seconds).
cooldown_duration(failures) ==
    IF failures >= 10 THEN 300
    ELSE IF failures >= 5 THEN 120
    ELSE 30

\* self.printers.entry(uri).or_default(): the record the call works on
Entry(uri) == IF uri \in DOMAIN printers THEN printers[uri] ELSE DefaultHealth

\* the map after the call has written record h for uri
WithEntry(uri, h) ==
    [u \in (DOMAIN printers) \cup {uri} |-> IF u = uri THEN h ELSE printers[u]]

\* allow_request that lets every call through while the probe is outstanding
allow_request_halfopen_passes(h, t) ==
    CASE h.state = "Closed" -> [ret |-> TRUE, health |-> h]
      [] h.state = "Open" ->
            IF h.opened_at # None
            THEN IF t - h.opened_at >= cooldown_duration(h.consecutive_failures)
                 THEN [ret |-> TRUE, health |-> [h EXCEPT !.state = "HalfOpen"]]
                 ELSE [ret |-> FALSE, health |-> h]
            ELSE [ret |-> TRUE, health |-> [h EXCEPT !.state = "Closed"]]
      [] h.state = "HalfOpen" -> [ret |-> TRUE, health |-> h]

\* allow_request on record h at time t: the value returned and the record left
allow_request(h, t) ==
    CASE h.state = "Closed" -> [ret |-> TRUE, health |-> h]
      [] h.state = "Open" ->
            IF h.opened_at # None
            THEN IF t - h.opened_at >= cooldown_duration(h.consecutive_failures)
                 THEN [ret |-> TRUE, health |-> [h EXCEPT !.state = "HalfOpen"]]
                 ELSE [ret |-> FALSE, health |-> h]
            ELSE [ret |-> TRUE, health |-> [h EXCEPT !.state = "Closed"]]
      [] h.state = "HalfOpen" -> [ret |-> FALSE, health |-> h]

\* record_success that closes the circuit but keeps the failure count
record_success_keeps_count(h, t) ==
    [h EXCEPT !.state = "Closed", !.opened_at = None, !.last_success = t,
              !.last_error = "none"]

\* record_success on record h at time t
record_success(h, t) ==
    [state |-> "Closed", consecutive_failures |-> 0, opened_at |-> None,
     last_success |-> t, last_error |-> "none"]

\* record_failure that opens the circuit one failure late
record_failure_late_threshold(h, t, err) ==
    LET n == h.consecutive_failures + 1
        h1 == [h EXCEPT !.consecutive_failures = n, !.last_error = err]
    IN  IF n > failure_threshold /\ h.state # "Open"
        THEN [h1 EXCEPT !.state = "Open", !.opened_at = t]
        ELSE IF h.state = "HalfOpen"
             THEN [h1 EXCEPT !.state = "Open", !.opened_at = t]
             ELSE h1

\* record_failure that reopens after a failed probe with the old opening time
record_failure_stale_open(h, t, err) ==
    LET n == h.consecutive_failures + 1
        h1 == [h EXCEPT !.consecutive_failures = n, !.last_error = err]
    IN  IF n >= failure_threshold /\ h.state = "Closed"
        THEN [h1 EXCEPT !.state = "Open", !.opened_at = t]
        ELSE IF h.state = "HalfOpen"
             THEN [h1 EXCEPT !.state = "Open"]
             ELSE h1

\* record_failure on record h at time t with error text err
record_failure(h, t, err) ==
    LET n == h.consecutive_failures + 1
        h1 == [h EXCEPT !.consecutive_failures = n, !.last_error = err]
    IN  IF n >= failure_threshold /\ h.state # "Open"
        THEN [h1 EXCEPT !.state = "Open", !.opened_at = t]
        ELSE IF h.state = "HalfOpen"
             THEN [h1 EXCEPT !.state = "Open", !.opened_at = t]
             ELSE h1

\* a step of the tracker leaves the other components alone
HealthOnly ==
    UNCHANGED <<protoVars, retryVars, jobVars, codecVars, serverVars,
               restVars>>

\* What has been called for a URI, kept beside the tracker to state the
\* properties of its calls:
\*   op, ret, prev  the most recent call for the URI, the value it returned
\*                  and the circuit state it found
\*   streak         record_failure calls since the last record_success
\*   thirdAt        when the third failure of the current streak was recorded
\*   probes         allow_request calls that returned true while the circuit
\*                  was not Closed, since the last record_success/failure
\*   probeFailedAt  when record_failure last found the circuit HalfOpen
\*                  (None after a record_success)
NoHistory ==
    [op |-> "none", ret |-> TRUE, prev |-> "Closed", streak |-> 0,
     thirdAt |-> None, probes |-> 0, probeFailedAt |-> None]

\* the tracker is asked whether a request to uri may go out
AllowRequest(uri) ==
    LET h == Entry(uri)
        r == allow_request(h, now)
    IN  /\ printers' = WithEntry(uri, r.health)
        /\ hist' = [hist EXCEPT ![uri] =
                [@ EXCEPT !.op = "allow_request", !.ret = r.ret, !.prev = h.state,
                          !.probes = IF r.ret /\ h.state # "Closed"
                                     THEN @ + 1 ELSE @]]
        /\ UNCHANGED now
        /\ HealthOnly

\* a request to uri succeeded
RecordSuccess(uri) ==
    /\ printers' = WithEntry(uri, record_success(Entry(uri), now))
    /\ hist' = [hist EXCEPT ![uri] =
            [NoHistory EXCEPT !.op = "record_success", !.prev = Entry(uri).state]]
    /\ UNCHANGED now
    /\ HealthOnly

\* record_failure(uri, "timeout") is called
FailureRecorded(uri) ==
    /\ printers' = WithEntry(uri, record_failure(Entry(uri), now, "timeout"))
    /\ hist' = [hist EXCEPT ![uri] =
            [@ EXCEPT !.op = "record_failure", !.ret = TRUE,
                      !.prev = Entry(uri).state,
                      !.streak = @ + 1,
                      !.thirdAt = IF hist[uri].streak = 2 THEN now ELSE @,
                      !.probes = 0,
                      !.probeFailedAt = IF Entry(uri).state = "HalfOpen"
                                        THEN now ELSE @]]
    /\ UNCHANGED now
    /\ HealthOnly

\* a request to uri failed
RecordFailure(uri) ==
    /\ Entry(uri).consecutive_failures < MaxFailures
    /\ FailureRecorded(uri)

\* time passes
Tick ==
    /\ now + TickStep <= MaxTime
    /\ now' = now + TickStep
    /\ UNCHANGED <<printers, hist>>
    /\ HealthOnly

\* HealthTracker::new(): no printer is tracked
HealthNew ==
    /\ printers = <<>>
    /\ now = 0
    /\ hist = [uri \in Endpoints |-> NoHistory]

HealthInit ==
    /\ HealthNew
    /\ ProtoIdle
    /\ RetryIdle
    /\ JobsIdle
    /\ CodecIdle
    /\ ServerIdle
    /\ RestIdle

HealthNext ==
    \/ \E uri \in Endpoints : AllowRequest(uri)
    \/ \E uri \in Endpoints : RecordSuccess(uri)
    \/ \E uri \in Endpoints : RecordFailure(uri)
    \/ Tick

SpecHealth == HealthInit /\ [][HealthNext]_vars

\* what allow_request(uri) would return if it were called now
WouldAllow(uri) == allow_request(Entry(uri), now).ret

C2_SuccessResets ==
    \A uri \in Endpoints :
        LET g == hist[uri] IN
        /\ g.op = "record_success"
              => /\ uri \in DOMAIN printers
                 /\ printers[uri].state = "Closed"
                 /\ printers[uri].consecutive_failures = 0
                 /\ WouldAllow(uri)
        \* no failure recorded since the last success: the calls since then
        \* were allow_request calls, and each returned true
        /\ g.streak = 0 /\ g.op = "allow_request" => g.ret /\ g.prev = "Closed"

\* record_success was called on an Open circuit that was still cooling down
\* (no time had passed since it opened), and closed it
C2_Witness ==
    \E uri \in Endpoints :
        /\ hist[uri].op = "record_success"
        /\ hist[uri].prev = "Open"
        /\ now < cooldown_duration(failure_threshold)
        /\ printers[uri].state = "Closed"
        /\ WouldAllow(uri)

CooldownMaxFailures == 10
\* the clock of this run stops advancing at CooldownMaxTime seconds
CooldownMaxTime == 330

\* the printer of this run
FailingPrinter == "ipp://a:631/"

\* a request to uri failed, once more
RepeatedFailure(uri) ==
    /\ Entry(uri).consecutive_failures < CooldownMaxFailures
    /\ FailureRecorded(uri)

\* time passes
LongTick ==
    /\ now + TickStep <= CooldownMaxTime
    /\ now' = now + TickStep
    /\ UNCHANGED <<printers, hist>>
    /\ HealthOnly

CooldownNext ==
    \/ AllowRequest(FailingPrinter)
    \/ RecordSuccess(FailingPrinter)
    \/ RepeatedFailure(FailingPrinter)
    \/ LongTick

SpecCooldown == HealthInit /\ [][CooldownNext]_vars

\* the cooldown in seconds, by the number of consecutive failures
Cooldown(failures) ==
    IF failures < 5 THEN 30 ELSE IF failures <= 9 THEN 120 ELSE 300

PrintProtocol == {"Ipps", "Ipp11", "Ipp10", "Lpr", "RawTcp"}

\* a chain that tries the raw socket before LPR
chain_raw_before_lpr == <<"Ipps", "Ipp11", "Ipp10", "RawTcp", "Lpr">>

\* PrintProtocol::chain(): all protocols in security-preferred order
chain == <<"Ipps", "Ipp11", "Ipp10", "Lpr", "RawTcp">>

\* PrintProtocol::default_port
default_port(protocol) ==
    CASE protocol \in {"Ipps", "Ipp11", "Ipp10"} -> 631
      [] protocol = "Lpr" -> 515
      [] protocol = "RawTcp" -> 9100

\* the port a protocol is probed on
probe_port(protocol) ==
    IF base_port # 631 THEN base_port ELSE default_port(protocol)

\* the base ports find_best_protocol is called with
BasePorts == {631, 8631}

\* a step of the negotiator leaves the other components alone
ProtoOnly ==
    UNCHANGED <<healthVars, retryVars, jobVars, codecVars, serverVars,
               restVars>>

\* find_best_protocol is called: its loop stands at the head of the chain
FindBestInit ==
    /\ probeOk \in [PrintProtocol -> BOOLEAN]
    /\ base_port \in BasePorts
    /\ fbPc = "loop"
    /\ fbIdx = 1
    /\ fbResult = "none"
    /\ probeLog = <<>>

\* the loop body starts probe_protocol(ip, port, protocol) and awaits it
StartProbe ==
    /\ fbPc = "loop"
    /\ fbIdx <= Len(chain)
    /\ probeLog' = Append(probeLog,
            [kind |-> "start", protocol |-> chain[fbIdx],
             port |-> probe_port(chain[fbIdx]), success |-> FALSE])
    /\ fbPc' = "probing"
    /\ UNCHANGED <<probeOk, base_port, fbIdx, fbResult>>
    /\ ProtoOnly

\* a loop that notes a successful probe but goes on down the chain
ProbeCompletesGoesOn ==
    /\ fbPc = "probing"
    /\ LET protocol == chain[fbIdx]
           success == probeOk[protocol]
       IN  /\ probeLog' = Append(probeLog,
                   [kind |-> "done", protocol |-> protocol,
                    port |-> probe_port(protocol), success |-> success])
           /\ IF success /\ fbIdx = Len(chain)
              THEN fbResult' = protocol /\ fbPc' = "returned" /\ fbIdx' = fbIdx
              ELSE fbResult' = fbResult /\ fbPc' = "loop" /\ fbIdx' = fbIdx + 1
    /\ UNCHANGED <<probeOk, base_port>>
    /\ ProtoOnly

\* the awaited probe completes: return Some(protocol) if it succeeded,
\* otherwise go on with the next protocol of the chain
ProbeCompletes ==
    /\ fbPc = "probing"
    /\ LET protocol == chain[fbIdx]
           success == probeOk[protocol]
       IN  /\ probeLog' = Append(probeLog,
                   [kind |-> "done", protocol |-> protocol,
                    port |-> probe_port(protocol), success |-> success])
           /\ IF success
              THEN fbResult' = protocol /\ fbPc' = "returned" /\ fbIdx' = fbIdx
              ELSE fbResult' = fbResult /\ fbPc' = "loop" /\ fbIdx' = fbIdx + 1
    /\ UNCHANGED <<probeOk, base_port>>
    /\ ProtoOnly

\* the chain is exhausted: return None
ReturnNone ==
    /\ fbPc = "loop"
    /\ fbIdx > Len(chain)
    /\ fbResult' = "None"
    /\ fbPc' = "returned"
    /\ UNCHANGED <<probeOk, base_port, fbIdx, probeLog>>
    /\ ProtoOnly

ProtoInit ==
    /\ FindBestInit
    /\ HealthNew
    /\ RetryIdle
    /\ JobsIdle
    /\ CodecIdle
    /\ ServerIdle
    /\ RestIdle

ProtoNext ==
    \/ StartProbe
    \/ ProbeCompletes
    \/ ReturnNone

SpecProto == ProtoInit /\ [][ProtoNext]_vars

\* the order of the transports from most to least secure, as the
\* specification of the negotiator gives it
SecurityOrder == <<"Ipps", "Ipp11", "Ipp10", "Lpr", "RawTcp">>

\* the position of a transport in that order
Rank(protocol) == CHOOSE i \in 1..Len(SecurityOrder) : SecurityOrder[i] = protocol

\* the probes that have completed, as records of probeLog
Completed == {probeLog[i] : i \in {j \in DOMAIN probeLog : probeLog[j].kind = "done"}}

(***************************************************************************)
(* C5. find_best_protocol returns the first transport in the order Ipps,   *)
(* Ipp11, Ipp10, Lpr, RawTcp whose probe succeeded, and None exactly when  *)
(* all five probes failed; it never returns a transport while a more       *)
(* secure one answered its probe successfully.                             *)
(***************************************************************************)
C5_FirstWorkingProtocol ==
    fbPc = "returned" =>
        /\ fbResult = "None" <=> \A p \in PrintProtocol : ~probeOk[p]
        /\ fbResult # "None" =>
              /\ fbResult \in PrintProtocol
              /\ probeOk[fbResult]
              /\ \E c \in Completed : c.protocol = fbResult /\ c.success
              /\ \A q \in PrintProtocol : Rank(q) < Rank(fbResult) => ~probeOk[q]
        /\ fbResult = "None" =>
              \A p \in PrintProtocol :
                  \E c \in Completed : c.protocol = p /\ ~c.success

\* the printer speaks neither IPP variant but both LPR and the raw socket,
\* and LPR was returned
C5_Witness ==
    /\ fbPc = "returned"
    /\ fbResult = "Lpr"
    /\ probeOk["RawTcp"]
    /\ ~probeOk["Ipps"] /\ ~probeOk["Ipp11"] /\ ~probeOk["Ipp10"]

(***************************************************************************)
(* C6. A transport's probe is started only after the probes of all more    *)
(* secure transports have completed with failure; probes are issued in     *)
(* chain order, and none is issued after the first successful one.         *)
(***************************************************************************)
C6_ProbesInOrder ==
    \A i \in DOMAIN probeLog :
        probeLog[i].kind = "start" =>
            LET p == probeLog[i].protocol IN
            \* every more secure transport was probed before, and failed
            /\ \A q \in PrintProtocol :
                  Rank(q) < Rank(p) =>
                      \E j \in 1..(i - 1) :
                          /\ probeLog[j].kind = "done"
                          /\ probeLog[j].protocol = q
                          /\ ~probeLog[j].success
            \* nothing completed successfully before, no probe is still running,
            \* and no transport at or below this one was probed before
            /\ \A j \in 1..(i - 1) :
                  /\ probeLog[j].kind = "done" => ~probeLog[j].success
                  /\ probeLog[j].kind = "start" =>
                        /\ Rank(probeLog[j].protocol) < Rank(p)
                        /\ j + 1 < i
                        /\ probeLog[j + 1].kind = "done"
                        /\ probeLog[j + 1].protocol = probeLog[j].protocol

\* the raw-socket probe was started after four probes had failed
C6_Witness ==
    /\ Len(probeLog) = 9
    /\ probeLog[9].kind = "start"
    /\ probeLog[9].protocol = "RawTcp"
    /\ probeLog[9].port = 9100

(***************************************************************************)
(* retry.rs : the retry classifier                                         *)
(***************************************************************************)
\* a step of the classifier leaves the other components alone
RetryOnly ==
    UNCHANGED <<healthVars, protoVars, jobVars, codecVars, serverVars,
               restVars>>

\* the largest attempt number should_retry is called with
MaxAttempt == 7

\* An IPP error detail is modelled by the set of the phrases that occur in
\* its lower-cased text (detail.to_ascii_lowercase().contains(phrase)).
TransientPhrases ==
    {"timed out", "connection refused", "connection reset", "broken pipe",
     "server-error"}
UserActionPhrases ==
    {"media-empty", "toner-empty", "ink", "door-open", "cover-open",
     "paper-jam", "media-jam", "marker-supply"}
PermanentPhrases ==
    {"client-error-document-format", "client-error-not-possible", "invalid uri"}

\* the details the classifier is given
IppDetails ==
    {{}, {"timed out"}, {"connection refused"}, {"server-error"},
     {"paper-jam"}, {"media-empty"}, {"ink"},
     {"client-error-document-format"}, {"invalid uri"},
     {"server-error", "paper-jam"}, {"paper-jam", "client-error-not-possible"},
     {"timed out", "invalid uri"}, {"client-error-bad-request"}}

\* std::io::ErrorKind, the kinds named in classify_error and one other
IoKinds ==
    {"TimedOut", "ConnectionRefused", "ConnectionReset", "ConnectionAborted",
     "Interrupted", "NotFound", "PermissionDenied", "UnexpectedEof"}

\* enum PresswerkError
PresswerkError ==
    [variant : {"Discovery", "PrintServer", "Database", "Certificate", "OcrError",
                "NoPrinterSelected", "UnsupportedDocument", "PdfError",
                "ImageError", "Encryption", "Decryption", "IntegrityMismatch",
                "PlatformUnavailable", "Bridge", "Serialization"}]
    \cup [variant : {"IppRequest"}, detail : IppDetails]
    \cup [variant : {"Io"}, kind : IoKinds]

\* Classify an IPP error detail string.
classify_ipp_detail(detail) ==
    IF detail \cap TransientPhrases # {} THEN "Transient"
    ELSE IF detail \cap UserActionPhrases # {} THEN "UserAction"
    ELSE IF detail \cap PermanentPhrases # {} THEN "Permanent"
    ELSE "Transient"

\* Classify a PresswerkError into an ErrorClass for retry decisions.
classify_error(err) ==
    CASE err.variant = "IppRequest" -> classify_ipp_detail(err.detail)
      [] err.variant \in {"Discovery", "PrintServer", "Database", "Certificate",
                          "OcrError"} -> "Transient"
      [] err.variant = "NoPrinterSelected" -> "UserAction"
      [] err.variant \in {"UnsupportedDocument", "PdfError", "ImageError",
                          "Encryption", "Decryption", "IntegrityMismatch",
                          "PlatformUnavailable", "Bridge", "Serialization"}
            -> "Permanent"
      [] err.variant = "Io" ->
            IF err.kind \in {"TimedOut", "ConnectionRefused", "ConnectionReset",
                             "ConnectionAborted", "Interrupted"}
            THEN "Transient"
            ELSE IF err.kind \in {"NotFound", "PermissionDenied"}
                 THEN "UserAction"
                 ELSE "Transient"

\* 2^n
RECURSIVE Pow2(_)
Pow2(n) == IF n = 0 THEN 1 ELSE 2 * Pow2(n - 1)

Min(a, b) == IF a <= b THEN a ELSE b
Max(a, b) == IF a >= b THEN a ELSE b

\* 6364136223846793005 = 0x5851F42D4C957F2D as 16-bit limbs, lowest first
JitterMultiplier == <<32557, 19605, 62509, 22609>>

\* (attempt as u64).wrapping_mul(6364136223846793005): the product modulo
\* 2^64, as 16-bit limbs, lowest first (the carry out of the top limb is lost)
RECURSIVE WrappingMulLimbs(_, _, _)
WrappingMulLimbs(a, i, carry) ==
    IF i > Len(JitterMultiplier) THEN <<>>
    ELSE LET v == JitterMultiplier[i] * a + carry
         IN  <<v % 65536>> \o WrappingMulLimbs(a, i + 1, v \div 65536)

\* a 64-bit value, given by its limbs, modulo m (m <= 32768)
RECURSIVE LimbsMod(_, _, _)
LimbsMod(limbs, i, m) ==
    IF i = 0 THEN 0
    ELSE (LimbsMod(limbs, i - 1, m) * 65536 + limbs[Len(limbs) + 1 - i]) % m

\* Generate jitter using a simple hash of the attempt number.
jitter(base_ms, attempt) ==
    LET hash == WrappingMulLimbs(attempt, 1, 0)
    IN  LimbsMod(hash, Len(hash), Max(base_ms, 1))

\* compute_delay that adds the jitter after the cap
compute_delay_jitter_after_cap(attempt, config) ==
    LET base_ms == config.base_delay
        exp_ms == base_ms * Pow2(Min(attempt, 10))
    IN  Min(exp_ms, config.max_delay) + jitter(base_ms, attempt)

\* Compute exponential backoff delay with jitter (milliseconds).  Within the
\* configurations of the model no product or sum reaches 2^64, where the
\* saturating operations of the code would cut it.
compute_delay(attempt, config) ==
    LET base_ms == config.base_delay
        exp_ms == base_ms * Pow2(Min(attempt, 10))
        jitter_ms == jitter(base_ms, attempt)
        total_ms == exp_ms + jitter_ms
    IN  Min(total_ms, config.max_delay)

\* should_retry that allows one retry more than max_retries
should_retry_one_more(err, attempt, config) ==
    LET class == classify_error(err)
    IN  CASE class = "Permanent" -> [kind |-> "GiveUp", class |-> "Permanent"]
          [] class = "UserAction" -> [kind |-> "GiveUp", class |-> "UserAction"]
          [] class = "Transient" ->
                IF attempt > config.max_retries
                THEN [kind |-> "Exhausted"]
                ELSE [kind |-> "RetryAfter", delay |-> compute_delay(attempt, config)]

\* Decide whether to retry based on the error class and attempt count.
should_retry(err, attempt, config) ==
    LET class == classify_error(err)
    IN  CASE class = "Permanent" -> [kind |-> "GiveUp", class |-> "Permanent"]
          [] class = "UserAction" -> [kind |-> "GiveUp", class |-> "UserAction"]
          [] class = "Transient" ->
                IF attempt >= config.max_retries
                THEN [kind |-> "Exhausted"]
                ELSE [kind |-> "RetryAfter", delay |-> compute_delay(attempt, config)]

\* impl Default for RetryConfig (delays in milliseconds), the configuration of
\* tests::retry_respects_max, that of tests::delay_capped_at_max, one with no
\* retries at all, and one whose max_delay is below its base_delay
RetryConfigs ==
    {[max_retries |-> 5, base_delay |-> 2000, max_delay |-> 120000],
     [max_retries |-> 3, base_delay |-> 2000, max_delay |-> 120000],
     [max_retries |-> 5, base_delay |-> 2000, max_delay |-> 10000],
     [max_retries |-> 0, base_delay |-> 500, max_delay |-> 120000],
     [max_retries |-> 5, base_delay |-> 2000, max_delay |-> 1500]}

\* the arguments of a call of should_retry
RetryCall ==
    /\ retryErr \in PresswerkError
    /\ retryAttempt \in 0..MaxAttempt
    /\ retryConfig \in RetryConfigs
    /\ retryPc = "call"
    /\ retryDecision = [kind |-> "none"]

\* should_retry(&err, attempt, &config) returns
ShouldRetry ==
    /\ retryPc = "call"
    /\ retryDecision' = should_retry(retryErr, retryAttempt, retryConfig)
    /\ retryPc' = "done"
    /\ UNCHANGED <<retryErr, retryAttempt, retryConfig>>
    /\ RetryOnly

RetryInit ==
    /\ RetryCall
    /\ HealthNew
    /\ ProtoIdle
    /\ JobsIdle
    /\ CodecIdle
    /\ ServerIdle
    /\ RestIdle

RetryNext == ShouldRetry

SpecRetry == RetryInit /\ [][RetryNext]_vars

(***************************************************************************)
(* C8. should_retry returns RetryAfter only for an error classified        *)
(* Transient with attempt < max_retries; Exhausted for a Transient error   *)
(* with attempt >= max_retries; GiveUp(UserAction) and GiveUp(Permanent)   *)
(* for errors of those classes, whatever the attempt number.               *)
(***************************************************************************)
C8_OnlyTransientRetried ==
    retryPc = "done" =>
        LET class == classify_error(retryErr)
            d == retryDecision IN
        /\ d.kind \in {"RetryAfter", "GiveUp", "Exhausted"}
        /\ d.kind = "RetryAfter"
              => class = "Transient" /\ retryAttempt < retryConfig.max_retries
        /\ class = "Transient" /\ retryAttempt >= retryConfig.max_retries
              => d.kind = "Exhausted"
        /\ class = "Transient" /\ retryAttempt < retryConfig.max_retries
              => d.kind = "RetryAfter"
        /\ class = "UserAction" => d = [kind |-> "GiveUp", class |-> "UserAction"]
        /\ class = "Permanent" => d = [kind |-> "GiveUp", class |-> "Permanent"]

\* a paper jam at attempt 0 with all five retries left: no retry
C8_Witness ==
    /\ retryPc = "done"
    /\ retryErr = [variant |-> "IppRequest", detail |-> {"paper-jam"}]
    /\ retryAttempt = 0
    /\ retryConfig.max_retries = 5
    /\ retryDecision = [kind |-> "GiveUp", class |-> "UserAction"]

(***************************************************************************)
(* queue.rs : the job store                                                *)
(***************************************************************************)
\* the attempt numbers compute_delay is asked about: the first ones, those
\* around the cap of the shift at 10, and that of tests::delay_capped_at_max
DelayAttempts == {0, 1, 2, 3, 9, 10, 11, 20}

(***************************************************************************)
(* C23. Retry backoff: the delay of a RetryAfter decision, and the delay   *)
(* compute_delay returns for any attempt number under the configuration of *)
(* the call, never exceeds the configuration's max_delay.                  *)
(***************************************************************************)
C23_DelayNeverExceedsMax ==
    /\ (retryPc = "done" /\ retryDecision.kind = "RetryAfter")
          => retryDecision.delay <= retryConfig.max_delay
    /\ retryPc = "done"
          => \A n \in DelayAttempts \cup (0..MaxAttempt) :
                compute_delay(n, retryConfig) <= retryConfig.max_delay

\* a retry whose backoff before the cap, 2000 * 2^3 ms and the jitter, is
\* above the max_delay of 10 s, and whose delay is max_delay
C23_Witness ==
    /\ retryPc = "done"
    /\ retryDecision.kind = "RetryAfter"
    /\ retryAttempt = 3
    /\ retryConfig.max_delay = 10000
    /\ retryConfig.base_delay * Pow2(retryAttempt) > retryConfig.max_delay
    /\ retryDecision.delay = retryConfig.max_delay

(***************************************************************************)
(* C28. A storage error (PresswerkError::Database, as a Job Store          *)
(* operation on an unknown id returns it) is never given a RetryAfter      *)
(* decision by should_retry.                                               *)
(* The code does not keep this: classify_error puts Database among the     *)
(* Transient errors, and should_retry answers RetryAfter for it while      *)
(* attempt < max_retries.                                                  *)
(***************************************************************************)
C28_StorageErrorNotRetried ==
    (retryPc = "done" /\ retryErr.variant = "Database")
        => retryDecision.kind # "RetryAfter"

\* a step of the job store, the application or the server leaves the other
\* components alone
JobsOnly ==
    UNCHANGED <<healthVars, protoVars, retryVars, codecVars, serverVars,
               restVars>>

\* the number of jobs submitted (locally or over the network)
MaxJobs == 2

\* enum JobStatus
JobStatus ==
    {"Pending", "Processing", "Completed", "Failed", "Cancelled", "Held",
     "RetryPending"}

\* PrintJob::new that starts a job beyond its retries
NewPrintJob_retried(source, document_name, document_hash, t) ==
    [source |-> source, status |-> "Pending", document_name |-> document_name,
     document_hash |-> document_hash, settings |-> "default",
     printer_uri |-> <<>>,
     created_at |-> t, updated_at |-> t, error_message |-> <<>>,
     retry_count |-> 6, max_retries |-> 5, error_class |-> <<>>,
     error_history |-> <<>>]

\* PrintJob::new at time t.  Option fields are sequences of length 0 or 1;
\* a JobSource is <<"Local">> or <<"Network", remote_addr>>.
\* (document_type, bytes_sent and total_bytes are never written after
\* construction and are left out; settings is PrintSettings::default().)
NewPrintJob(source, document_name, document_hash, t) ==
    [source |-> source, status |-> "Pending", document_name |-> document_name,
     document_hash |-> document_hash, settings |-> "default",
     printer_uri |-> <<>>,
     created_at |-> t, updated_at |-> t, error_message |-> <<>>,
     retry_count |-> 0, max_retries |-> 5, error_class |-> <<>>,
     error_history |-> <<>>]

\* insert_job as INSERT OR REPLACE would have it
insert_job_replaces(table, id, job) ==
    [ok |-> TRUE,
     table |-> [k \in (DOMAIN table) \cup {id} |->
                    IF k = id THEN job ELSE table[k]]]

\* JobQueue::insert_job: INSERT fails on an id that is already there
insert_job(table, id, job) ==
    IF id \in DOMAIN table
    THEN [ok |-> FALSE, table |-> table]
    ELSE [ok |-> TRUE,
          table |-> [k \in (DOMAIN table) \cup {id} |->
                        IF k = id THEN job ELSE table[k]]]

\* update_status that also sets created_at
update_status_sets_created(table, id, status, error_message, t) ==
    IF id \notin DOMAIN table
    THEN [ok |-> FALSE, table |-> table]
    ELSE [ok |-> TRUE,
          table |-> [table EXCEPT ![id] =
                        [@ EXCEPT !.status = status, !.updated_at = t,
                                  !.created_at = t,
                                  !.error_message = error_message]]]

\* JobQueue::update_status at time t: UPDATE status, updated_at and
\* error_message; an error if no row has the id
update_status(table, id, status, error_message, t) ==
    IF id \notin DOMAIN table
    THEN [ok |-> FALSE, table |-> table]
    ELSE [ok |-> TRUE,
          table |-> [table EXCEPT ![id] =
                        [@ EXCEPT !.status = status, !.updated_at = t,
                                  !.error_message = error_message]]]

\* JobQueue::delete_job: idempotent
delete_job(table, id) == [k \in (DOMAIN table) \ {id} |-> table[k]]

\* the status write that update_status(id, status) is about to make, if the
\* job is stored
Changed(by, id, status) ==
    IF id \in DOMAIN jobs
    THEN [by |-> by, job |-> id, from |-> jobs[id].status, to |-> status]
    ELSE lastChange

(***************************************************************************)
(* app_services.rs : print_document, its send task, cancel_job, delete_job *)
(***************************************************************************)
\* the printer URIs print_document is called with: a printer, and a string
\* that does not parse as a URI
PrinterUris == {"ipp://a:631/", "not a uri"}

\* IppClient::new: uri.parse() succeeds
uri_parses(uri) == uri \in Endpoints

\* the error IppClient::new returns for a string that does not parse
InvalidUriError == [variant |-> "IppRequest", detail |-> {"invalid uri"}]

\* the errors IppClient::print_job returns: the connection was refused, the
\* request timed out, the printer answered with a non-success status
SendErrors ==
    {[variant |-> "IppRequest", detail |-> {"connection refused"}],
     [variant |-> "IppRequest", detail |-> {"timed out"}],
     [variant |-> "IppRequest", detail |-> {}]}

\* integrity::hash_bytes, and the hash handle_print_job computes
hash_bytes(document) == IF document = <<>> THEN <<"empty">> ELSE <<"sha256", document>>

\* AppServices::all_jobs as the Jobs page uses it: the status of each job
all_jobs(table) == [k \in DOMAIN table |-> table[k].status]

\* AppServices::print_document up to tokio::spawn: insert the job, spawn the
\* send task
PrintDocument(uri) ==
    /\ nextJob <= MaxJobs
    /\ LET id == nextJob
           job == [NewPrintJob(<<"Local">>, "doc", hash_bytes(<<1>>), utc)
                     EXCEPT !.printer_uri = <<uri>>]
           r == insert_job(jobs, id, job)
       IN  /\ jobs' = r.table
           /\ task' = IF r.ok
                      THEN [k \in (DOMAIN task) \cup {id} |->
                              IF k = id
                              THEN [pc |-> "spawned", uri |-> uri, err |-> <<>>,
                                    sent |-> 0]
                              ELSE task[k]]
                      ELSE task
           /\ sendLog' = [k \in (DOMAIN sendLog) \cup {id} |->
                            IF k = id THEN <<>> ELSE sendLog[k]]
    /\ nextJob' = nextJob + 1
    /\ UNCHANGED <<utc, uiJobs, ipp_to_internal, next_ipp_job_id, lastChange>>
    /\ JobsOnly

\* the send task starts: status Processing (a failure of the update is
\* ignored), IppClient::new, and for a URI that parses the request goes out
TaskStart(id) ==
    /\ id \in DOMAIN task
    /\ task[id].pc = "spawned"
    /\ jobs' = update_status(jobs, id, "Processing", <<>>, utc).table
    /\ lastChange' = Changed("send_task", id, "Processing")
    /\ task' = [task EXCEPT ![id] =
            IF uri_parses(@.uri)
            THEN [@ EXCEPT !.pc = "sending", !.sent = @ + 1]
            ELSE [@ EXCEPT !.pc = "bad_uri", !.err = <<InvalidUriError>>]]
    /\ UNCHANGED <<nextJob, utc, uiJobs, ipp_to_internal, next_ipp_job_id, sendLog>>
    /\ JobsOnly

\* IppClient::new failed: status Failed with the error's text
TaskBadUri(id) ==
    /\ id \in DOMAIN task
    /\ task[id].pc = "bad_uri"
    /\ jobs' = update_status(jobs, id, "Failed", task[id].err, utc).table
    /\ lastChange' = Changed("send_task", id, "Failed")
    /\ task' = [task EXCEPT ![id].pc = "done"]
    /\ UNCHANGED <<nextJob, utc, uiJobs, ipp_to_internal, next_ipp_job_id, sendLog>>
    /\ JobsOnly

\* client.print_job(..).await returned Ok(remote_id): status Completed
SendSucceeds(id) ==
    /\ id \in DOMAIN task
    /\ task[id].pc = "sending"
    /\ jobs' = update_status(jobs, id, "Completed", <<>>, utc).table
    /\ lastChange' = Changed("send_task", id, "Completed")
    /\ task' = [task EXCEPT ![id].pc = "done"]
    /\ UNCHANGED <<nextJob, utc, uiJobs, ipp_to_internal, next_ipp_job_id, sendLog>>
    /\ JobsOnly

\* client.print_job(..).await returned Err(e): status Failed with e's text
SendFails(id, e) ==
    /\ id \in DOMAIN task
    /\ task[id].pc = "sending"
    /\ jobs' = update_status(jobs, id, "Failed", <<e>>, utc).table
    /\ lastChange' = Changed("send_task", id, "Failed")
    /\ task' = [task EXCEPT ![id].pc = "done", ![id].err = <<e>>]
    /\ sendLog' = [sendLog EXCEPT ![id] = Append(@, e)]
    /\ UNCHANGED <<nextJob, utc, uiJobs, ipp_to_internal, next_ipp_job_id>>
    /\ JobsOnly

\* the Jobs page reloads its list (every 3 s, and on Refresh)
RefreshJobs ==
    /\ uiJobs # all_jobs(jobs)
    /\ uiJobs' = all_jobs(jobs)
    /\ UNCHANGED <<jobs, nextJob, utc, task, ipp_to_internal, next_ipp_job_id,
                   lastChange, sendLog>>
    /\ JobsOnly

\* the Cancel button, shown for a job the page lists as Pending or Held:
\* AppServices::cancel_job, then the list is reloaded
CancelJob(id) ==
    /\ id \in DOMAIN uiJobs
    /\ uiJobs[id] \in {"Pending", "Held"}
    /\ jobs' = update_status(jobs, id, "Cancelled", <<>>, utc).table
    /\ lastChange' = Changed("cancel_job", id, "Cancelled")
    /\ uiJobs' = all_jobs(jobs')
    /\ UNCHANGED <<nextJob, utc, task, ipp_to_internal, next_ipp_job_id, sendLog>>
    /\ JobsOnly

\* the Delete button, shown for a job the page lists as Completed, Failed or
\* Cancelled: AppServices::delete_job, then the list is reloaded
DeleteJob(id) ==
    /\ id \in DOMAIN uiJobs
    /\ uiJobs[id] \in {"Completed", "Failed", "Cancelled"}
    /\ jobs' = delete_job(jobs, id)
    /\ uiJobs' = all_jobs(jobs')
    /\ UNCHANGED <<nextJob, utc, task, ipp_to_internal, next_ipp_job_id,
                   lastChange, sendLog>>
    /\ JobsOnly

(***************************************************************************)
(* ipp_server.rs : the Print-Job and Cancel-Job handlers                   *)
(***************************************************************************)
\* handle_print_job: a new Pending job from the network, with the next IPP
\* job-id mapped to it
ServerPrintJob(document) ==
    /\ nextJob <= MaxJobs
    /\ LET id == nextJob
           job == NewPrintJob(<<"Network", "192.168.1.50">>, "Untitled Document",
                              hash_bytes(document), utc)
       IN  /\ ipp_to_internal' =
                  [k \in (DOMAIN ipp_to_internal) \cup {next_ipp_job_id} |->
                      IF k = next_ipp_job_id THEN id ELSE ipp_to_internal[k]]
           /\ jobs' = insert_job(jobs, id, job).table
    /\ next_ipp_job_id' = next_ipp_job_id + 1
    /\ nextJob' = nextJob + 1
    /\ UNCHANGED <<utc, task, uiJobs, lastChange, sendLog>>
    /\ JobsOnly

\* handle_cancel_job for a job-id the map knows: status Cancelled
ServerCancelJob(ipp_job_id) ==
    /\ ipp_job_id \in DOMAIN ipp_to_internal
    /\ LET id == ipp_to_internal[ipp_job_id]
       IN  /\ jobs' = update_status(jobs, id, "Cancelled", <<>>, utc).table
           /\ lastChange' = Changed("Cancel-Job", id, "Cancelled")
    /\ UNCHANGED <<nextJob, utc, task, uiJobs, ipp_to_internal, next_ipp_job_id,
                   sendLog>>
    /\ JobsOnly

JobsInit ==
    /\ JobsIdle
    /\ CodecIdle
    /\ ServerIdle
    /\ RestIdle
    /\ HealthNew
    /\ ProtoIdle
    /\ RetryIdle

JobsNext ==
    \/ \E uri \in PrinterUris : PrintDocument(uri)
    \/ \E id \in 1..MaxJobs : TaskStart(id)
    \/ \E id \in 1..MaxJobs : TaskBadUri(id)
    \/ \E id \in 1..MaxJobs : SendSucceeds(id)
    \/ \E id \in 1..MaxJobs : \E e \in SendErrors : SendFails(id, e)
    \/ RefreshJobs
    \/ \E id \in 1..MaxJobs : CancelJob(id)
    \/ \E id \in 1..MaxJobs : DeleteJob(id)
    \/ \E document \in {<<>>, <<1>>} : ServerPrintJob(document)
    \/ \E ipp_job_id \in 1..MaxJobs : ServerCancelJob(ipp_job_id)

SpecJobs == JobsInit /\ [][JobsNext]_vars

\* the status changes the job lifecycle allows
AllowedTransitions ==
    {<<"Pending", "Processing">>, <<"Processing", "Completed">>,
     <<"Processing", "Failed">>, <<"Processing", "RetryPending">>,
     <<"RetryPending", "Processing">>, <<"Pending", "Cancelled">>,
     <<"Held", "Cancelled">>}

(***************************************************************************)
(* C7. Every status change applied to a stored job, by whichever           *)
(* component, is one of Pending->Processing, Processing->Completed,        *)
(* Processing->Failed, Processing->RetryPending, RetryPending->Processing, *)
(* Pending->Cancelled, Held->Cancelled; so a Completed, Failed or          *)
(* Cancelled job never changes status again.                               *)
(* The code does not keep this: update_status writes any status over any   *)
(* other, and neither the send task nor the cancel paths look at the       *)
(* status they overwrite.                                                  *)
(***************************************************************************)
C7_LifecycleTransitions ==
    lastChange.by # "none" /\ lastChange.from # lastChange.to
        => <<lastChange.from, lastChange.to>> \in AllowedTransitions

(***************************************************************************)
(* C9. A job whose transmission fails with a Transient error is tried      *)
(* again; it is Failed only after max_retries re-attempts have failed too, *)
(* or after an attempt failed with a UserAction or Permanent error.        *)
(* The code does not keep this: the send task transmits once and marks     *)
(* the job Failed on any error, without consulting should_retry.           *)
(***************************************************************************)
C9_FailedOnlyAfterRetries ==
    \A id \in DOMAIN jobs :
        (/\ id \in DOMAIN sendLog
         /\ sendLog[id] # <<>>
         /\ jobs[id].status = "Failed")
        => \/ classify_error(sendLog[id][Len(sendLog[id])]) # "Transient"
           \/ Len(sendLog[id]) > jobs[id].max_retries

(***************************************************************************)
(* C10. Every transmission to a printer follows an allow_request for that  *)
(* printer that returned true, and its outcome is recorded with            *)
(* record_success or record_failure.                                       *)
(* The code does not keep this: the send task never calls the              *)
(* HealthTracker, which the application does not even construct.           *)
(***************************************************************************)
C10_HealthGateBeforeTransmission ==
    \A id \in DOMAIN task :
        /\ task[id].pc = "sending"
              => /\ hist[task[id].uri].op = "allow_request"
                 /\ hist[task[id].uri].ret
        /\ task[id].pc = "done" /\ task[id].sent > 0
              => hist[task[id].uri].op \in {"record_success", "record_failure"}

(***************************************************************************)
(* ipp_server.rs : the wire codec                                          *)
(* A byte is a number in 0..255, a buffer a sequence of bytes, a string    *)
(* the sequence of its UTF-8 bytes.  Positions are counted from 0 as in    *)
(* the code; the byte at position pos of data is data[pos + 1].            *)
(***************************************************************************)
(* C29. Every job held in the Job Store has retry_count <= max_retries,    *)
(* in every state that submissions (local and from the network), the send  *)
(* task's status updates, cancellation and deletion can produce.           *)
(***************************************************************************)
C29_RetryCountBounded ==
    \A id \in DOMAIN jobs : jobs[id].retry_count <= jobs[id].max_retries

\* a job whose transmission failed and was marked Failed, beside a job that
\* came in over the network
C29_Witness ==
    \E id, other \in DOMAIN jobs :
        /\ jobs[id].status = "Failed"
        /\ id \in DOMAIN sendLog
        /\ sendLog[id] # <<>>
        /\ jobs[other].source[1] = "Network"

(***************************************************************************)
(* queue.rs : the JobQueue called directly                                 *)
(***************************************************************************)
StoreOnly ==
    UNCHANGED <<healthVars, protoVars, retryVars, codecVars, serverVars,
                documents, ippServer, rpc, net>>

\* what a call of the JobQueue leaves alone besides the table and the clock
StoreFrame ==
    UNCHANGED <<nextJob, task, uiJobs, ipp_to_internal, next_ipp_job_id,
                lastChange, sendLog>>

\* the number of job ids the queue is called with
MaxStoreJobs == 2

\* the readings of Utc::now(), in nanoseconds after 1970-01-01T00:00:00Z: a
\* whole second, 5 ms, 10.001 ms and the next whole second
Instants == {0, 5000000, 10001000, 1000000000}

\* n in decimal, width characters wide, with leading zeros
RECURSIVE digits(_, _)
digits(n, width) ==
    IF width = 0 THEN <<>>
    ELSE digits(n \div 10, width - 1) \o <<48 + (n % 10)>>

\* n in decimal without its leading zeros
RECURSIVE digits_unpadded(_)
digits_unpadded(n) ==
    IF n < 10 THEN <<48 + n>> ELSE digits_unpadded(n \div 10) \o <<48 + (n % 10)>>

\* to_rfc3339 that prints the fraction without its leading zeros
to_rfc3339_unpadded(t) ==
    LET secs == t \div 1000000000
        nanos == t % 1000000000
    IN  <<49, 57, 55, 48, 45, 48, 49, 45, 48, 49, 84, 48, 48, 58, 48, 48, 58>>
        \o digits(secs, 2)
        \o (IF nanos = 0 THEN <<>>
            ELSE IF nanos % 1000000 = 0
                 THEN <<46>> \o digits_unpadded(nanos \div 1000000)
            ELSE IF nanos % 1000 = 0
                 THEN <<46>> \o digits_unpadded(nanos \div 1000)
            ELSE <<46>> \o digits_unpadded(nanos))
        \o <<43, 48, 48, 58, 48, 48>>

\* DateTime<Utc>::to_rfc3339 (SecondsFormat::AutoSi): "1970-01-01T00:00:SS",
\* no fraction or one of 3, 6 or 9 digits, and "+00:00"
to_rfc3339(t) ==
    LET secs == t \div 1000000000
        nanos == t % 1000000000
    IN  <<49, 57, 55, 48, 45, 48, 49, 45, 48, 49, 84, 48, 48, 58, 48, 48, 58>>
        \o digits(secs, 2)
        \o (IF nanos = 0 THEN <<>>
            ELSE IF nanos % 1000000 = 0
                 THEN <<46>> \o digits(nanos \div 1000000, 3)
            ELSE IF nanos % 1000 = 0
                 THEN <<46>> \o digits(nanos \div 1000, 6)
            ELSE <<46>> \o digits(nanos, 9))
        \o <<43, 48, 48, 58, 48, 48>>

\* SQLite's BINARY collation of TEXT: a <= b byte by byte, a prefix first
RECURSIVE text_le(_, _)
text_le(a, b) ==
    IF a = <<>> THEN TRUE
    ELSE IF b = <<>> THEN FALSE
    ELSE IF a[1] # b[1] THEN a[1] < b[1]
    ELSE text_le(Tail(a), Tail(b))

\* the orders in which SELECT .. ORDER BY created_at may return the rows
\* ids: every arrangement in which the created_at texts do not descend
\* (ascending) or do not ascend (descending); rows with equal texts come in
\* any order
order_by_created_at(table, ids, ascending) ==
    {r \in [1..Cardinality(ids) -> ids] :
        /\ \A i, j \in DOMAIN r : i # j => r[i] # r[j]
        /\ \A i, j \in DOMAIN r :
              i < j => IF ascending
                       THEN text_le(to_rfc3339(table[r[i]].created_at),
                                    to_rfc3339(table[r[j]].created_at))
                       ELSE text_le(to_rfc3339(table[r[j]].created_at),
                                    to_rfc3339(table[r[i]].created_at))}

\* JobQueue::get_pending_jobs: WHERE status = "Pending" ORDER BY created_at ASC
get_pending_jobs(table) ==
    order_by_created_at(table,
                        {k \in DOMAIN table : table[k].status = "Pending"}, TRUE)

\* JobQueue::get_all_jobs: ORDER BY created_at DESC
get_all_jobs(table) == order_by_created_at(table, DOMAIN table, FALSE)

\* the job PrintJob::new makes for id at time t: the first from this device,
\* the others from the network
StoreJob(id, t) ==
    NewPrintJob(IF id = 1 THEN <<"Local">> ELSE <<"Network", "192.168.1.50">>,
                <<100 + id>>, hash_bytes(<<id>>), t)

\* the status and error message update_status is called with
StatusUpdates ==
    {<<"Processing", <<>>>>, <<"Failed", <<"paper jam">>>>}

\* queue.insert_job(&job) with a job made now
StoreInsert(id) ==
    LET r == insert_job(jobs, id, StoreJob(id, utc))
    IN  /\ jobs' = r.table
        /\ storeCall' = [op |-> "insert_job", id |-> id, ok |-> r.ok,
                         rows |-> <<>>]
        /\ UNCHANGED utc
        /\ StoreFrame
        /\ StoreOnly

\* queue.update_status(&id, status, error_message)
StoreUpdateStatus(id, status, error_message) ==
    LET r == update_status(jobs, id, status, error_message, utc)
    IN  /\ jobs' = r.table
        /\ storeCall' = [op |-> "update_status", id |-> id, ok |-> r.ok,
                         rows |-> <<>>]
        /\ UNCHANGED utc
        /\ StoreFrame
        /\ StoreOnly

\* queue.delete_job(&id)
StoreDelete(id) ==
    /\ jobs' = delete_job(jobs, id)
    /\ storeCall' = [op |-> "delete_job", id |-> id, ok |-> TRUE, rows |-> <<>>]
    /\ UNCHANGED utc
    /\ StoreFrame
    /\ StoreOnly

\* queue.get_pending_jobs()
StoreGetPending ==
    /\ \E rows \in get_pending_jobs(jobs) :
          storeCall' = [op |-> "get_pending_jobs", id |-> 0, ok |-> TRUE,
                        rows |-> rows]
    /\ UNCHANGED <<jobs, utc>>
    /\ StoreFrame
    /\ StoreOnly

\* queue.get_all_jobs()
StoreGetAll ==
    /\ \E rows \in get_all_jobs(jobs) :
          storeCall' = [op |-> "get_all_jobs", id |-> 0, ok |-> TRUE,
                        rows |-> rows]
    /\ UNCHANGED <<jobs, utc>>
    /\ StoreFrame
    /\ StoreOnly

\* the clock moves on to its next reading
StoreTick ==
    /\ \E t \in Instants :
          /\ t > utc
          /\ \A u \in Instants : u > utc => t <= u
          /\ utc' = t
    /\ UNCHANGED <<jobs, storeCall>>
    /\ StoreFrame
    /\ StoreOnly

StoreInit == JobsInit

StoreNext ==
    \/ \E id \in 1..MaxStoreJobs : StoreInsert(id)
    \/ \E id \in 1..MaxStoreJobs : \E u \in StatusUpdates :
          StoreUpdateStatus(id, u[1], u[2])
    \/ \E id \in 1..MaxStoreJobs : StoreDelete(id)
    \/ StoreGetPending
    \/ StoreGetAll
    \/ StoreTick

SpecStore == StoreInit /\ [][StoreNext]_vars

\* this step is a call of the JobQueue
StoreCalled == storeCall' # storeCall \/ jobs' # jobs

(***************************************************************************)
(* C21. Job Store: insert_job with an id that is already stored, and       *)
(* update_status with an id that is not stored, each return an error and   *)
(* leave the set of stored jobs and every stored field unchanged.          *)
(***************************************************************************)
C21_StoreRejectsBadIds ==
    [][StoreCalled =>
         /\ (storeCall'.op = "insert_job" /\ storeCall'.id \in DOMAIN jobs)
               => (~storeCall'.ok /\ jobs' = jobs)
         /\ (storeCall'.op = "update_status" /\ storeCall'.id \notin DOMAIN jobs)
               => (~storeCall'.ok /\ jobs' = jobs)
      ]_vars

\* insert_job was refused for job 1, which is stored, was created earlier and
\* has been marked Failed since
C21_Witness ==
    /\ storeCall.op = "insert_job"
    /\ storeCall.id = 1
    /\ ~storeCall.ok
    /\ 1 \in DOMAIN jobs
    /\ jobs[1].status = "Failed"
    /\ jobs[1].created_at < utc

(***************************************************************************)
(* C22. Job Store: get_pending_jobs returns exactly the stored jobs whose  *)
(* status is Pending, each once, the oldest created first; get_all_jobs    *)
(* returns every stored job, each once, the newest created first.          *)
(***************************************************************************)
C22_ListsOrderedByCreation ==
    /\ storeCall.op = "get_pending_jobs"
          => LET rows == storeCall.rows
             IN  /\ {rows[i] : i \in DOMAIN rows}
                       = {k \in DOMAIN jobs : jobs[k].status = "Pending"}
                 /\ \A i, j \in DOMAIN rows :
                       i < j => /\ rows[i] # rows[j]
                                /\ jobs[rows[i]].created_at
                                       <= jobs[rows[j]].created_at
    /\ storeCall.op = "get_all_jobs"
          => LET rows == storeCall.rows
             IN  /\ {rows[i] : i \in DOMAIN rows} = DOMAIN jobs
                 /\ \A i, j \in DOMAIN rows :
                       i < j => /\ rows[i] # rows[j]
                                /\ jobs[rows[i]].created_at
                                       >= jobs[rows[j]].created_at

\* get_pending_jobs returned job 2, created at 5 ms, before job 1, created at
\* 10.001 ms
C22_Witness ==
    /\ storeCall.op = "get_pending_jobs"
    /\ storeCall.rows = <<2, 1>>
    /\ jobs[2].created_at = 5000000
    /\ jobs[1].created_at = 10001000

(***************************************************************************)
(* C30. Job Store frame: a successful update_status on job J changes only  *)
(* J's status, error message and updated timestamp; every other field of   *)
(* J (content hash, source, name, settings, created timestamp among them), *)
(* the set of stored ids and every field of every other job are unchanged; *)
(* and no step changes the content hash of a stored job.                   *)
(***************************************************************************)
C30_UpdateStatusFrame ==
    [][/\ (StoreCalled /\ storeCall'.op = "update_status" /\ storeCall'.ok)
            => LET id == storeCall'.id
               IN  /\ id \in DOMAIN jobs
                   /\ DOMAIN jobs' = DOMAIN jobs
                   /\ \A k \in (DOMAIN jobs) \ {id} : jobs'[k] = jobs[k]
                   /\ \A f \in (DOMAIN jobs[id])
                                  \ {"status", "error_message", "updated_at"} :
                         jobs'[id][f] = jobs[id][f]
       /\ \A k \in (DOMAIN jobs) \cap (DOMAIN jobs') :
             jobs'[k].document_hash = jobs[k].document_hash
      ]_vars

\* update_status has marked job 2 Failed with a message, after its creation,
\* while job 1 is stored beside it
C30_Witness ==
    /\ storeCall.op = "update_status"
    /\ storeCall.ok
    /\ storeCall.id = 2
    /\ 1 \in DOMAIN jobs
    /\ 2 \in DOMAIN jobs
    /\ jobs[2].status = "Failed"
    /\ jobs[2].error_message = <<"paper jam">>
    /\ jobs[2].updated_at > jobs[2].created_at

(***************************************************************************)
\* a step of the codec run leaves the other components alone
CodecOnly ==
    UNCHANGED <<healthVars, protoVars, retryVars, jobVars, serverVars, restVars>>

\* the builder is finished after at most MaxCalls begin_group/write_attr calls
MaxCalls == 3
\* a received buffer has at most MaxBodyLen bytes after its 8 header bytes
MaxBodyLen == 6

IPP_VERSION_MAJOR == 1
IPP_VERSION_MINOR == 1
TAG_OPERATION_ATTRIBUTES == 1
TAG_JOB_ATTRIBUTES == 2
TAG_END_OF_ATTRIBUTES == 3
VALUE_TAG_INTEGER == 33
VALUE_TAG_ENUM == 35
VALUE_TAG_TEXT == 65
VALUE_TAG_KEYWORD == 68
VALUE_TAG_URI == 69
VALUE_TAG_CHARSET == 71
VALUE_TAG_NATURAL_LANGUAGE == 72

\* u16::to_be_bytes of (n as u16)
u16_to_be_bytes(n) == <<(n \div 256) % 256, n % 256>>

\* u32::to_be_bytes
u32_to_be_bytes(n) ==
    <<(n \div 16777216) % 256, (n \div 65536) % 256, (n \div 256) % 256,
      n % 256>>

\* i32::to_be_bytes: two's complement
i32_to_be_bytes(v) ==
    IF v >= 0 THEN u32_to_be_bytes(v)
    ELSE LET low == u32_to_be_bytes(v + 2147483647 + 1)
         IN  <<128 + low[1], low[2], low[3], low[4]>>

\* u16::from_be_bytes
u16_from_be_bytes(b) == b[1] * 256 + b[2]

\* u32::from_be_bytes
u32_from_be_bytes(b) == ((b[1] * 256 + b[2]) * 256 + b[3]) * 256 + b[4]

\* i32::from_be_bytes: two's complement
i32_from_be_bytes(b) ==
    IF b[1] >= 128
    THEN (((b[1] - 256) * 256 + b[2]) * 256 + b[3]) * 256 + b[4]
    ELSE u32_from_be_bytes(b)

\* U+FFFD in UTF-8
REPLACEMENT_CHARACTER == <<239, 191, 189>>

\* String::from_utf8_lossy(..).to_string(): well-formed sequences are kept,
\* a byte that starts none becomes U+FFFD.  (One- and two-byte sequences are
\* told apart; the buffers of the model hold no longer ones.)
RECURSIVE from_utf8_lossy(_)
from_utf8_lossy(bytes) ==
    IF bytes = <<>> THEN <<>>
    ELSE IF bytes[1] < 128
    THEN <<bytes[1]>> \o from_utf8_lossy(Tail(bytes))
    ELSE IF /\ bytes[1] \in 194..223
            /\ Len(bytes) >= 2
            /\ bytes[2] \in 128..191
    THEN <<bytes[1], bytes[2]>> \o from_utf8_lossy(Tail(Tail(bytes)))
    ELSE REPLACEMENT_CHARACTER \o from_utf8_lossy(Tail(bytes))

\* data[from..to]
slice(data, from, to) == SubSeq(data, from + 1, to)

\* a slice data[..to], or an index data[to - 1], panics unless to <= len
in_bounds(data, to) == to <= Len(data)

\* str::as_bytes, for the strings the server reads and writes
as_bytes(s) ==
    CASE s = "attributes-charset" ->
            <<97, 116, 116, 114, 105, 98, 117, 116, 101, 115, 45, 99, 104,
            97, 114, 115, 101, 116>>
      [] s = "attributes-natural-language" ->
            <<97, 116, 116, 114, 105, 98, 117, 116, 101, 115, 45, 110, 97,
            116, 117, 114, 97, 108, 45, 108, 97, 110, 103, 117, 97, 103,
            101>>
      [] s = "status-message" ->
            <<115, 116, 97, 116, 117, 115, 45, 109, 101, 115, 115, 97, 103,
            101>>
      [] s = "utf-8" ->
            <<117, 116, 102, 45, 56>>
      [] s = "en" ->
            <<101, 110>>
      [] s = "successful-ok" ->
            <<115, 117, 99, 99, 101, 115, 115, 102, 117, 108, 45, 111, 107>>
      [] s = "job-id" ->
            <<106, 111, 98, 45, 105, 100>>
      [] s = "job-uri" ->
            <<106, 111, 98, 45, 117, 114, 105>>
      [] s = "job-state" ->
            <<106, 111, 98, 45, 115, 116, 97, 116, 101>>
      [] s = "job-state-reasons" ->
            <<106, 111, 98, 45, 115, 116, 97, 116, 101, 45, 114, 101, 97,
            115, 111, 110, 115>>
      [] s = "none" ->
            <<110, 111, 110, 101>>
      [] s = "job-name" ->
            <<106, 111, 98, 45, 110, 97, 109, 101>>
      [] s = "document-name" ->
            <<100, 111, 99, 117, 109, 101, 110, 116, 45, 110, 97, 109, 101>>
      [] s = "document-format" ->
            <<100, 111, 99, 117, 109, 101, 110, 116, 45, 102, 111, 114, 109,
            97, 116>>
      [] s = "Untitled Document" ->
            <<85, 110, 116, 105, 116, 108, 101, 100, 32, 68, 111, 99, 117,
            109, 101, 110, 116>>
      [] s = "application/octet-stream" ->
            <<97, 112, 112, 108, 105, 99, 97, 116, 105, 111, 110, 47, 111,
            99, 116, 101, 116, 45, 115, 116, 114, 101, 97, 109>>
      [] s = "ipp://localhost:" ->
            <<105, 112, 112, 58, 47, 47, 108, 111, 99, 97, 108, 104, 111,
            115, 116, 58>>
      [] s = "/ipp/print" ->
            <<47, 105, 112, 112, 47, 112, 114, 105, 110, 116>>
      [] s = "/jobs/" ->
            <<47, 106, 111, 98, 115, 47>>
      [] s = "Malformed IPP request: " ->
            <<77, 97, 108, 102, 111, 114, 109, 101, 100, 32, 73, 80, 80, 32,
            114, 101, 113, 117, 101, 115, 116, 58, 32>>
      [] s = "IPP request too short: " ->
            <<73, 80, 80, 32, 114, 101, 113, 117, 101, 115, 116, 32, 116,
            111, 111, 32, 115, 104, 111, 114, 116, 58, 32>>
      [] s = " bytes (minimum 8)" ->
            <<32, 98, 121, 116, 101, 115, 32, 40, 109, 105, 110, 105, 109,
            117, 109, 32, 56, 41>>
      [] s = "truncated name-length field" ->
            <<116, 114, 117, 110, 99, 97, 116, 101, 100, 32, 110, 97, 109,
            101, 45, 108, 101, 110, 103, 116, 104, 32, 102, 105, 101, 108,
            100>>
      [] s = "truncated attribute name" ->
            <<116, 114, 117, 110, 99, 97, 116, 101, 100, 32, 97, 116, 116,
            114, 105, 98, 117, 116, 101, 32, 110, 97, 109, 101>>
      [] s = "truncated value-length field" ->
            <<116, 114, 117, 110, 99, 97, 116, 101, 100, 32, 118, 97, 108,
            117, 101, 45, 108, 101, 110, 103, 116, 104, 32, 102, 105, 101,
            108, 100>>
      [] s = "truncated attribute value" ->
            <<116, 114, 117, 110, 99, 97, 116, 101, 100, 32, 97, 116, 116,
            114, 105, 98, 117, 116, 101, 32, 118, 97, 108, 117, 101>>
      [] s = "Missing required job-id attribute" ->
            <<77, 105, 115, 115, 105, 110, 103, 32, 114, 101, 113, 117, 105,
            114, 101, 100, 32, 106, 111, 98, 45, 105, 100, 32, 97, 116, 116,
            114, 105, 98, 117, 116, 101>>
      [] s = "Job " ->
            <<74, 111, 98, 32>>
      [] s = " not found" ->
            <<32, 110, 111, 116, 32, 102, 111, 117, 110, 100>>
      [] s = "Failed to enqueue job: " ->
            <<70, 97, 105, 108, 101, 100, 32, 116, 111, 32, 101, 110, 113,
            117, 101, 117, 101, 32, 106, 111, 98, 58, 32>>
      [] s = "Failed to cancel job: " ->
            <<70, 97, 105, 108, 101, 100, 32, 116, 111, 32, 99, 97, 110, 99,
            101, 108, 32, 106, 111, 98, 58, 32>>
      [] s = "database error: " ->
            <<100, 97, 116, 97, 98, 97, 115, 101, 32, 101, 114, 114, 111,
            114, 58, 32>>
      [] s = "insert job: " ->
            <<105, 110, 115, 101, 114, 116, 32, 106, 111, 98, 58, 32>>
      [] s = "job " ->
            <<106, 111, 98, 32>>
      [] s = "Operation 0x" ->
            <<79, 112, 101, 114, 97, 116, 105, 111, 110, 32, 48, 120>>
      [] s = " is not supported" ->
            <<32, 105, 115, 32, 110, 111, 116, 32, 115, 117, 112, 112, 111,
            114, 116, 101, 100>>
      [] s = "POST /ipp/print HTTP/1.1" ->
            <<80, 79, 83, 84, 32, 47, 105, 112, 112, 47, 112, 114, 105, 110,
            116, 32, 72, 84, 84, 80, 47, 49, 46, 49>>
      [] s = "Content-Type: application/ipp" ->
            <<67, 111, 110, 116, 101, 110, 116, 45, 84, 121, 112, 101, 58,
            32, 97, 112, 112, 108, 105, 99, 97, 116, 105, 111, 110, 47, 105,
            112, 112>>
      [] s = "HTTP/1.1 200 OK" ->
            <<72, 84, 84, 80, 47, 49, 46, 49, 32, 50, 48, 48, 32, 79, 75>>
      [] s = "Content-Length: " ->
            <<67, 111, 110, 116, 101, 110, 116, 45, 76, 101, 110, 103, 116,
            104, 58, 32>>
      [] s = "Connection: close" ->
            <<67, 111, 110, 110, 101, 99, 116, 105, 111, 110, 58, 32, 99,
            108, 111, 115, 101>>

\* "\r\n"
CRLF == <<13, 10>>

\* format!("{n}") of a non-negative integer: its decimal digits
RECURSIVE to_string(_)
to_string(n) ==
    IF n < 10 THEN <<48 + n>> ELSE to_string(n \div 10) \o <<48 + (n % 10)>>

\* one digit of format!("{:X}")
hex_digit(d) == IF d < 10 THEN 48 + d ELSE 55 + d

\* format!("{:04X}") of a u16
hex04(n) ==
    <<hex_digit((n \div 4096) % 16), hex_digit((n \div 256) % 16),
      hex_digit((n \div 16) % 16), hex_digit(n % 16)>>

\* parse_ipp_request returned Err(msg)
ParseErr(msg) ==
    [kind |-> "Err", err |-> msg, version_major |-> 0, version_minor |-> 0,
     operation_id |-> 0, request_id |-> 0, attribute_groups |-> <<>>,
     document_data |-> <<>>, pos |-> 0, ended |-> FALSE]

\* parse_ipp_request panicked on an index out of bounds
ParsePanic == [ParseErr(<<>>) EXCEPT !.kind = "Panic"]

\* the truncation checks of parse_ipp_request, as a bug would have them:
\* a field that ends one byte past the buffer is let through
truncated_off_by_one(pos, n, len) == pos + n > len + 1

\* the truncation checks: a field of n bytes at pos extends past the end
truncated(pos, n, len) == pos + n > len

\* the delimiter test of parse_ipp_request, as a bug would have it
is_delimiter_below_0F(tag) == tag < 15

\* the delimiter test: delimiter tags are in the range 0x00..=0x0F
is_delimiter(tag) == tag <= 15

\* the while loop of parse_ipp_request from position pos on, and the flush after
\* it.  current_group is the Option as a sequence of length 0 or 1.  The
\* result carries the position the loop ended at and whether it ended at the
\* end-of-attributes tag (the break).
RECURSIVE parse_attributes(_, _, _, _)
parse_attributes(data, pos, attribute_groups, current_group) ==
    IF ~(pos < Len(data))
    THEN [kind |-> "Ok", pos |-> pos, ended |-> FALSE,
          groups |-> attribute_groups \o current_group]
    ELSE
    LET tag == data[pos + 1]
        len == Len(data)
    IN
    IF is_delimiter(tag)
    THEN IF tag = TAG_END_OF_ATTRIBUTES
         THEN [kind |-> "Ok", pos |-> pos + 1, ended |-> TRUE,
               groups |-> attribute_groups \o current_group]
         ELSE parse_attributes(data, pos + 1,
                               attribute_groups \o current_group,
                               <<[delimiter |-> tag, attributes |-> <<>>]>>)
    ELSE
    LET p1 == pos + 1   \* the name-length field
    IN
    IF truncated(p1, 2, len) THEN ParseErr(as_bytes("truncated name-length field"))
    ELSE IF ~in_bounds(data, p1 + 2) THEN ParsePanic
    ELSE
    LET name_length == u16_from_be_bytes(slice(data, p1, p1 + 2))
        p2 == p1 + 2    \* the name
    IN
    IF truncated(p2, name_length, len) THEN ParseErr(as_bytes("truncated attribute name"))
    ELSE IF ~in_bounds(data, p2 + name_length) THEN ParsePanic
    ELSE
    LET name == from_utf8_lossy(slice(data, p2, p2 + name_length))
        p3 == p2 + name_length   \* the value-length field
    IN
    IF truncated(p3, 2, len) THEN ParseErr(as_bytes("truncated value-length field"))
    ELSE IF ~in_bounds(data, p3 + 2) THEN ParsePanic
    ELSE
    LET value_length == u16_from_be_bytes(slice(data, p3, p3 + 2))
        p4 == p3 + 2    \* the value
    IN
    IF truncated(p4, value_length, len)
    THEN ParseErr(as_bytes("truncated attribute value"))
    ELSE IF ~in_bounds(data, p4 + value_length) THEN ParsePanic
    ELSE
    LET attr == [value_tag |-> tag, name |-> name,
                 value |-> slice(data, p4, p4 + value_length)]
    IN  parse_attributes(data, p4 + value_length, attribute_groups,
            IF current_group # <<>>
            THEN <<[current_group[1] EXCEPT !.attributes = Append(@, attr)]>>
            ELSE <<>>)    \* an attribute outside of any group is discarded

\* parse_ipp_request
parse_ipp_request(data) ==
    IF Len(data) < 8
    THEN ParseErr(as_bytes("IPP request too short: ") \o to_string(Len(data))
                    \o as_bytes(" bytes (minimum 8)"))
    ELSE
    LET r == parse_attributes(data, 8, <<>>, <<>>)
    IN  IF r.kind # "Ok" THEN r
        ELSE [kind |-> "Ok", err |-> <<>>,
              version_major |-> data[1], version_minor |-> data[2],
              operation_id |-> u16_from_be_bytes(slice(data, 2, 4)),
              request_id |-> u32_from_be_bytes(slice(data, 4, 8)),
              attribute_groups |-> r.groups,
              document_data |->
                  IF r.pos < Len(data) THEN slice(data, r.pos, Len(data))
                  ELSE <<>>,
              pos |-> r.pos, ended |-> r.ended]

\* IppResponseBuilder::new
IppResponseBuilder_new(status_code, request_id) ==
    [buf |-> <<IPP_VERSION_MAJOR, IPP_VERSION_MINOR>>
                \o u16_to_be_bytes(status_code) \o u32_to_be_bytes(request_id),
     in_group |-> FALSE]

\* IppResponseBuilder::begin_group
begin_group(b, delimiter) == [buf |-> Append(b.buf, delimiter), in_group |-> TRUE]

\* the number of characters of a string with one- and two-byte characters
chars_count(name) == Cardinality({i \in DOMAIN name : name[i] \notin 128..191})

\* IppResponseBuilder::write_attr as a bug would have it: the name-length
\* field counts the characters of the name, not its bytes
write_attr_counts_chars(b, value_tag, name, value) ==
    [b EXCEPT !.buf = @ \o <<value_tag>> \o u16_to_be_bytes(chars_count(name))
                        \o name \o u16_to_be_bytes(Len(value)) \o value]

\* IppResponseBuilder::write_attr
write_attr(b, value_tag, name, value) ==
    [b EXCEPT !.buf = @ \o <<value_tag>> \o u16_to_be_bytes(Len(name)) \o name
                        \o u16_to_be_bytes(Len(value)) \o value]

\* IppResponseBuilder::build
build(b) == Append(b.buf, TAG_END_OF_ATTRIBUTES)

\* the arguments the builder is called with: status codes, request ids,
\* delimiter tags other than end-of-attributes, value tags, names (valid
\* UTF-8: the empty name, "j", and a two-byte character), values
StatusCodes == {0, 1030, 65535}
RequestIds == {0, 42, 16909060}
Delimiters == {0, TAG_OPERATION_ATTRIBUTES, 15}
ValueTags == {16, VALUE_TAG_KEYWORD}
Names == {<<>>, <<106>>, <<195, 169>>}
Values == {<<>>, <<TAG_END_OF_ATTRIBUTES, 13>>}

\* the buffers handed to parse_ipp_request as received: the prefixes of a
\* header, and the header followed by up to MaxBodyLen bytes
ReceivedHeader == <<1, 1, 0, 2, 0, 0, 0, 42>>
BodyBytes == {0, 1, TAG_END_OF_ATTRIBUTES, 15, 16}
ReceivedBuffers ==
    {SubSeq(ReceivedHeader, 1, n) : n \in 0..7}
        \cup {ReceivedHeader \o body :
                body \in UNION {[1..n -> BodyBytes] : n \in 0..MaxBodyLen}}

\* IppResponseBuilder::new(status_code, request_id)
BuilderNew(status_code, request_id) ==
    /\ codecPc = "start"
    /\ resp' = IppResponseBuilder_new(status_code, request_id)
    /\ calls' = <<[call |-> "new", status_code |-> status_code,
                   request_id |-> request_id]>>
    /\ codecPc' = "building"
    /\ UNCHANGED <<wire, parsed>>
    /\ CodecOnly

\* resp.begin_group(delimiter)
BeginGroup(delimiter) ==
    /\ codecPc = "building"
    /\ Len(calls) <= MaxCalls
    /\ resp' = begin_group(resp, delimiter)
    /\ calls' = Append(calls, [call |-> "begin_group", delimiter |-> delimiter])
    /\ UNCHANGED <<codecPc, wire, parsed>>
    /\ CodecOnly

\* resp.write_attr(value_tag, name, value), which text, keyword, integer and
\* the other typed writers come down to; every caller has begun a group
WriteAttr(value_tag, name, value) ==
    /\ codecPc = "building"
    /\ Len(calls) <= MaxCalls
    /\ resp.in_group
    /\ resp' = write_attr(resp, value_tag, name, value)
    /\ calls' = Append(calls, [call |-> "write_attr", value_tag |-> value_tag,
                               name |-> name, value |-> value])
    /\ UNCHANGED <<codecPc, wire, parsed>>
    /\ CodecOnly

\* resp.build()
Build ==
    /\ codecPc = "building"
    /\ wire' = build(resp)
    /\ codecPc' = "built"
    /\ UNCHANGED <<resp, calls, parsed>>
    /\ CodecOnly

\* parse_ipp_request(&wire), of built bytes or of a received buffer
Parse ==
    /\ codecPc \in {"built", "received"}
    /\ parsed' = parse_ipp_request(wire)
    /\ codecPc' = "done"
    /\ UNCHANGED <<resp, calls, wire>>
    /\ CodecOnly

CodecInit ==
    /\ codecPc \in {"start", "received"}
    /\ wire \in (IF codecPc = "received" THEN ReceivedBuffers ELSE {<<>>})
    /\ resp = [buf |-> <<>>, in_group |-> FALSE]
    /\ calls = <<>>
    /\ parsed = [kind |-> "none"]
    /\ HealthNew
    /\ ProtoIdle
    /\ RetryIdle
    /\ JobsIdle
    /\ ServerIdle
    /\ RestIdle

CodecNext ==
    \/ \E status_code \in StatusCodes : \E request_id \in RequestIds :
           BuilderNew(status_code, request_id)
    \/ \E delimiter \in Delimiters : BeginGroup(delimiter)
    \/ \E value_tag \in ValueTags : \E name \in Names : \E value \in Values :
           WriteAttr(value_tag, name, value)
    \/ Build
    \/ Parse

SpecCodec == CodecInit /\ [][CodecNext]_vars

\* the groups and attributes that a sequence of builder calls describes
RECURSIVE GroupsOf(_)
GroupsOf(cs) ==
    IF cs = <<>> THEN <<>>
    ELSE LET before == GroupsOf(SubSeq(cs, 1, Len(cs) - 1))
             c == cs[Len(cs)]
         IN  CASE c.call = "begin_group" ->
                    Append(before, [delimiter |-> c.delimiter, attributes |-> <<>>])
               [] c.call = "write_attr" ->
                    [before EXCEPT ![Len(before)].attributes =
                        Append(@, [value_tag |-> c.value_tag, name |-> c.name,
                                   value |-> c.value])]
               [] OTHER -> before

(***************************************************************************)
(* C16. Wire codec round trip: whatever message is built with              *)
(* IppResponseBuilder (any status code and request id, groups opened with  *)
(* delimiter tags other than end-of-attributes, attributes with a value    *)
(* tag above 0x0F), parse_ipp_request of the built bytes succeeds and      *)
(* yields version 1.1, the status code, the request id, and the same       *)
(* groups, delimiters, attribute names and value bytes in the same order.  *)
(***************************************************************************)
C16_BuilderRoundTrip ==
    codecPc = "done" /\ calls # <<>>
        => /\ parsed.kind = "Ok"
           /\ parsed.version_major = IPP_VERSION_MAJOR
           /\ parsed.version_minor = IPP_VERSION_MINOR
           /\ parsed.operation_id = calls[1].status_code
           /\ parsed.request_id = calls[1].request_id
           /\ parsed.attribute_groups = GroupsOf(calls)

\* a built message with two groups, the first holding an attribute with a
\* two-byte name and a value that contains the end-of-attributes byte, was
\* parsed
C16_Witness ==
    /\ codecPc = "done"
    /\ calls # <<>>
    /\ calls[1].status_code = 1030
    /\ Len(parsed.attribute_groups) = 2
    /\ parsed.attribute_groups[1].attributes =
          <<[value_tag |-> 16, name |-> <<195, 169>>,
             value |-> <<TAG_END_OF_ATTRIBUTES, 13>>]>>
    /\ parsed.attribute_groups[2].delimiter = 15

\* a name-length, name, value-length or value field of the attribute section
\* of data, read from position pos on, would extend past the end of data
RECURSIVE FieldOverruns(_, _)
FieldOverruns(data, pos) ==
    IF pos >= Len(data) THEN FALSE
    ELSE IF data[pos + 1] = TAG_END_OF_ATTRIBUTES THEN FALSE
    ELSE IF data[pos + 1] <= 15 THEN FieldOverruns(data, pos + 1)
    ELSE IF pos + 3 > Len(data) THEN TRUE
    ELSE LET nameEnd == pos + 3 + u16_from_be_bytes(SubSeq(data, pos + 2, pos + 3))
         IN  IF nameEnd + 2 > Len(data) THEN TRUE
             ELSE LET valueEnd == nameEnd + 2
                        + u16_from_be_bytes(SubSeq(data, nameEnd + 1, nameEnd + 2))
                  IN  IF valueEnd > Len(data) THEN TRUE
                      ELSE FieldOverruns(data, valueEnd)

(***************************************************************************)
(* C17. parse_ipp_request returns an error, and neither panics nor reads   *)
(* past the end, for every buffer shorter than 8 bytes and for every       *)
(* buffer in which a name-length, name, value-length or value field would  *)
(* extend past the end of the buffer.                                      *)
(***************************************************************************)
C17_TruncatedRejected ==
    /\ codecPc = "done" => parsed.kind # "Panic"
    /\ codecPc = "done" /\ calls = <<>>
         /\ (Len(wire) < 8 \/ FieldOverruns(wire, 8))
        => parsed.kind = "Err"

\* a buffer with a full header whose last attribute announces a value longer
\* than the bytes that are left was rejected
C17_Witness ==
    /\ codecPc = "done"
    /\ calls = <<>>
    /\ Len(wire) > 8
    /\ FieldOverruns(wire, 8)
    /\ parsed.kind = "Err"
    /\ parsed.err = as_bytes("truncated attribute value")

(***************************************************************************)
(* C18. Every buffer that parse_ipp_request decodes successfully had its   *)
(* attribute section terminated by an end-of-attributes delimiter (0x03    *)
(* at the delimiter position where the decoder stopped), and the decoded   *)
(* document payload is exactly the bytes after that delimiter.             *)
(* The code does not keep this: a buffer that ends without the delimiter   *)
(* is decoded successfully, with an empty payload.                         *)
(***************************************************************************)
C18_EndDelimiterTerminates ==
    codecPc = "done" /\ calls = <<>> /\ parsed.kind = "Ok"
        => \E p \in 9..Len(wire) :
              /\ wire[p] = TAG_END_OF_ATTRIBUTES
              /\ parsed.pos = p
              /\ parsed.document_data = SubSeq(wire, p + 1, Len(wire))

(***************************************************************************)
(* ipp_server.rs : the connection handler and the operation handlers       *)
(***************************************************************************)
\* a step of the server leaves the components it does not use alone
ServerOnly ==
    UNCHANGED <<healthVars, protoVars, retryVars, codecVars,
               restVars>>

\* the accept loop accepts at most MaxAccepted connections
MaxAccepted == 3

DEFAULT_PORT == 631
OP_PRINT_JOB == 2
OP_VALIDATE_JOB == 4
OP_CANCEL_JOB == 8
OP_GET_JOBS == 10
OP_GET_PRINTER_ATTRIBUTES == 11
STATUS_OK == 0
STATUS_CLIENT_ERROR_BAD_REQUEST == 1024
STATUS_CLIENT_ERROR_NOT_FOUND == 1030
STATUS_SERVER_ERROR_INTERNAL == 1280
STATUS_SERVER_ERROR_OPERATION_NOT_SUPPORTED == 1281
JOB_STATE_PENDING == 3
JOB_STATE_HELD == 4

\* the first index of seq whose element satisfies Test, as an Option
FirstIndex(seq, Test(_)) ==
    LET found == {i \in DOMAIN seq : Test(seq[i])}
    IN  IF found = {} THEN <<>>
        ELSE <<CHOOSE i \in found : \A j \in found : i <= j>>

\* IppAttributeGroup::get
get(group, name) ==
    LET Named(a) == a.name = name
        i == FirstIndex(group.attributes, Named)
    IN  IF i = <<>> THEN <<>> ELSE <<group.attributes[i[1]]>>

\* IppAttributeGroup::get_string: None for a value that is not UTF-8
get_string(group, name) ==
    LET a == get(group, name)
    IN  IF a # <<>> /\ from_utf8_lossy(a[1].value) = a[1].value
        THEN <<a[1].value>> ELSE <<>>

\* IppAttributeGroup::get_integer: None for a value that is not 4 bytes long
get_integer(group, name) ==
    LET a == get(group, name)
    IN  IF a # <<>> /\ Len(a[1].value) = 4
        THEN <<i32_from_be_bytes(a[1].value)>> ELSE <<>>

\* IppRequest::operation_attributes
operation_attributes(request) ==
    LET IsOperation(g) == g.delimiter = TAG_OPERATION_ATTRIBUTES
        i == FirstIndex(request.attribute_groups, IsOperation)
    IN  IF i = <<>> THEN <<>> ELSE <<request.attribute_groups[i[1]]>>

\* the first group of a decoded message with the given delimiter
group_of(request, delimiter) ==
    LET Is(g) == g.delimiter = delimiter
        i == FirstIndex(request.attribute_groups, Is)
    IN  IF i = <<>> THEN <<>> ELSE <<request.attribute_groups[i[1]]>>

\* find_subsequence: the position of the first window equal to needle
find_subsequence(haystack, needle) ==
    LET at == {i \in 0..(Len(haystack) - Len(needle)) :
                  SubSeq(haystack, i + 1, i + Len(needle)) = needle}
    IN  IF at = {} THEN <<>> ELSE <<CHOOSE i \in at : \A j \in at : i <= j>>

\* parse_http_envelope: Some(body_offset) if the data holds "\r\n\r\n"
\* (content_length is parsed but never read)
parse_http_envelope(data) ==
    LET header_end == find_subsequence(data, CRLF \o CRLF)
    IN  IF header_end = <<>> THEN <<>> ELSE <<header_end[1] + 4>>

\* handle_connection: the bytes handed to parse_ipp_request
ipp_body(buf) ==
    LET http_req == parse_http_envelope(buf)
    IN  IF http_req # <<>> THEN slice(buf, http_req[1], Len(buf)) ELSE buf

\* the operation-attributes group that opens every response
response_head(status, request_id, message) ==
    LET b0 == begin_group(IppResponseBuilder_new(status, request_id),
                          TAG_OPERATION_ATTRIBUTES)
        b1 == write_attr(b0, VALUE_TAG_CHARSET, as_bytes("attributes-charset"),
                         as_bytes("utf-8"))
        b2 == write_attr(b1, VALUE_TAG_NATURAL_LANGUAGE,
                         as_bytes("attributes-natural-language"), as_bytes("en"))
    IN  write_attr(b2, VALUE_TAG_TEXT, as_bytes("status-message"), message)

\* build_error_response
build_error_response(status, request_id, message) ==
    build(response_head(status, request_id, message))

\* the response of handle_cancel_job and handle_validate_job on success
ok_response(request_id) ==
    build(response_head(STATUS_OK, request_id, as_bytes("successful-ok")))

\* the response of handle_print_job as a bug would have it: the job is
\* reported as held for review
print_job_response_held(request_id, ipp_job_id, port) ==
    LET printer_uri == as_bytes("ipp://localhost:") \o to_string(port)
                          \o as_bytes("/ipp/print")
        b0 == begin_group(response_head(STATUS_OK, request_id,
                                        as_bytes("successful-ok")),
                          TAG_JOB_ATTRIBUTES)
        b1 == write_attr(b0, VALUE_TAG_INTEGER, as_bytes("job-id"),
                         i32_to_be_bytes(ipp_job_id))
        b2 == write_attr(b1, VALUE_TAG_URI, as_bytes("job-uri"),
                         printer_uri \o as_bytes("/jobs/") \o to_string(ipp_job_id))
        b3 == write_attr(b2, VALUE_TAG_ENUM, as_bytes("job-state"),
                         i32_to_be_bytes(JOB_STATE_HELD))
    IN  build(write_attr(b3, VALUE_TAG_KEYWORD, as_bytes("job-state-reasons"),
                         as_bytes("none")))

\* the response of handle_print_job on success
print_job_response(request_id, ipp_job_id, port) ==
    LET printer_uri == as_bytes("ipp://localhost:") \o to_string(port)
                          \o as_bytes("/ipp/print")
        b0 == begin_group(response_head(STATUS_OK, request_id,
                                        as_bytes("successful-ok")),
                          TAG_JOB_ATTRIBUTES)
        b1 == write_attr(b0, VALUE_TAG_INTEGER, as_bytes("job-id"),
                         i32_to_be_bytes(ipp_job_id))
        b2 == write_attr(b1, VALUE_TAG_URI, as_bytes("job-uri"),
                         printer_uri \o as_bytes("/jobs/") \o to_string(ipp_job_id))
        b3 == write_attr(b2, VALUE_TAG_ENUM, as_bytes("job-state"),
                         i32_to_be_bytes(JOB_STATE_PENDING))
    IN  build(write_attr(b3, VALUE_TAG_KEYWORD, as_bytes("job-state-reasons"),
                         as_bytes("none")))

\* the headers send_response writes before the body
http_response(ipp_body_len) ==
    as_bytes("HTTP/1.1 200 OK") \o CRLF
        \o as_bytes("Content-Type: application/ipp") \o CRLF
        \o as_bytes("Content-Length: ") \o to_string(ipp_body_len) \o CRLF
        \o as_bytes("Connection: close") \o CRLF \o CRLF

\* send_response: the bytes written to the stream
send_response(body) == http_response(Len(body)) \o body

\* handle_print_job: the document name
document_name(request) ==
    LET op_attrs == operation_attributes(request)
        job_name == IF op_attrs = <<>> THEN <<>>
                    ELSE get_string(op_attrs[1], as_bytes("job-name"))
        doc_name == IF op_attrs = <<>> THEN <<>>
                    ELSE get_string(op_attrs[1], as_bytes("document-name"))
    IN  IF job_name # <<>> THEN job_name[1]
        ELSE IF doc_name # <<>> THEN doc_name[1]
        ELSE as_bytes("Untitled Document")

\* AtomicU32::fetch_add as a bug would have it: the new value is not stored
fetch_add_lost_update(counter, n) == [ret |-> counter, value |-> counter]

\* AtomicU32::fetch_add: the old value is returned, the sum is stored (the
\* counter stays far below 2^31 here, where the cast to i32 changes nothing)
fetch_add(counter, n) == [ret |-> counter, value |-> counter + n]

\* HashMap::get as a bug would have it: the entry before the one asked for
lookup_previous(map, ipp_job_id) ==
    IF ipp_job_id - 1 \in DOMAIN map THEN <<map[ipp_job_id - 1]>> ELSE <<>>

\* ipp_to_internal.get(&ipp_job_id).copied()
lookup(map, ipp_job_id) ==
    IF ipp_job_id \in DOMAIN map THEN <<map[ipp_job_id]>> ELSE <<>>

\* the attributes of a request, written one after the other
RECURSIVE write_attrs(_, _)
write_attrs(b, attributes) ==
    IF attributes = <<>> THEN b
    ELSE write_attrs(write_attr(b, attributes[1].value_tag, attributes[1].name,
                                attributes[1].value),
                     Tail(attributes))

\* tests::build_test_ipp_request: the bytes of a request as a client encodes
\* it: header, the operation-attributes group, end-of-attributes, document
build_test_ipp_request(operation_id, request_id, attributes, document_data) ==
    LET b0 == begin_group(IppResponseBuilder_new(operation_id, request_id),
                          TAG_OPERATION_ATTRIBUTES)
        b1 == write_attr(b0, VALUE_TAG_CHARSET, as_bytes("attributes-charset"),
                         as_bytes("utf-8"))
        b2 == write_attr(b1, VALUE_TAG_NATURAL_LANGUAGE,
                         as_bytes("attributes-natural-language"), as_bytes("en"))
    IN  build(write_attrs(b2, attributes)) \o document_data

\* the text header a client puts before the binary message
http_request_head ==
    as_bytes("POST /ipp/print HTTP/1.1") \o CRLF
        \o as_bytes("Content-Type: application/ipp") \o CRLF \o CRLF

\* what a client sends on a connection: a request it encoded, with or
\* without the text header ...
Request(enveloped, operation_id, request_id, attributes, document_data) ==
    [enveloped |-> enveloped,
     client |-> [wellformed |-> TRUE, operation_id |-> operation_id,
                 request_id |-> request_id, document_data |-> document_data],
     buf |-> (IF enveloped THEN http_request_head ELSE <<>>)
                \o build_test_ipp_request(operation_id, request_id, attributes,
                                          document_data)]

\* ... or bytes that are no request
Malformed(bytes) ==
    [enveloped |-> FALSE,
     client |-> [wellformed |-> FALSE, operation_id |-> 0, request_id |-> 0,
                 document_data |-> <<>>],
     buf |-> bytes]

\* a job-id attribute
JobIdAttr(n) ==
    [value_tag |-> VALUE_TAG_INTEGER, name |-> as_bytes("job-id"),
     value |-> i32_to_be_bytes(n)]

\* the connections of the model: Print-Job with a document, with a document
\* that holds CR LF CR LF, and inside the text header with a job-name and an
\* empty document; Cancel-Job for job-id 1, for job-id 2 and without job-id;
\* an operation the server does not have; three bytes; a request cut off
\* inside an attribute
ClientRequests ==
    {Request(FALSE, OP_PRINT_JOB, 20, <<>>, <<37, 80>>),
     Request(FALSE, OP_PRINT_JOB, 21, <<>>, <<13, 10, 13, 10, 37>>),
     Request(TRUE, OP_PRINT_JOB, 22,
             <<[value_tag |-> 66, name |-> as_bytes("job-name"),
                value |-> <<84, 101, 115, 116>>]>>, <<>>),
     Request(FALSE, OP_CANCEL_JOB, 31, <<JobIdAttr(1)>>, <<>>),
     Request(FALSE, OP_CANCEL_JOB, 32, <<JobIdAttr(2)>>, <<>>),
     Request(FALSE, OP_CANCEL_JOB, 33, <<>>, <<>>),
     Request(FALSE, 5, 50, <<>>, <<>>),
     Malformed(<<1, 1, 0>>),
     Malformed(<<1, 1, 0, 2, 0, 0, 0, 42, 1, 33, 0>>)}

\* the peers that connect, in turn
Peers == <<"192.168.1.50", "10.0.0.7">>
PeerOf(n) == Peers[(n % Len(Peers)) + 1]

\* the task that takes the next connection
FreeHandler(h) ==
    /\ conn[h].pc \in {"idle", "closed"}
    /\ h = "h2" => conn["h1"].pc \notin {"idle", "closed"}

\* handle_connection up to the dispatch, which touches nothing but the
\* connection: the request is read to the end, the envelope is stripped and
\* the rest is parsed
ReceivedConnections ==
    {[NoConnection EXCEPT !.pc = "received", !.buf = r.buf,
                          !.enveloped = r.enveloped, !.client = r.client,
                          !.request = parse_ipp_request(ipp_body(r.buf))] :
        r \in ClientRequests}

\* accept_loop accepts a connection from the next peer and spawns
\* handle_connection, which receives the request c
Accept(h, c) ==
    /\ accepted < MaxAccepted
    /\ FreeHandler(h)
    /\ conn' = [conn EXCEPT ![h] = [c EXCEPT !.peer = PeerOf(accepted)]]
    /\ accepted' = accepted + 1
    /\ UNCHANGED <<jobVars, returnedIds>>
    /\ ServerOnly

\* the parsed request of the connection
Decoded(h) == conn[h].request

\* the handler returns after sending the response
Closed(c, request, outcome, response) ==
    [c EXCEPT !.pc = "closed", !.request = request, !.outcome = outcome,
              !.response = response, !.written = send_response(response)]

\* handle_connection for a request that does not parse: bad-request with
\* request id 0
DecodeFails(h) ==
    /\ conn[h].pc = "received"
    /\ Decoded(h).kind # "Ok"
    /\ conn' = [conn EXCEPT ![h] =
          IF Decoded(h).kind = "Panic"
          THEN [@ EXCEPT !.pc = "panicked"]
          ELSE Closed(@, Decoded(h), "malformed",
                 build_error_response(STATUS_CLIENT_ERROR_BAD_REQUEST, 0,
                     as_bytes("Malformed IPP request: ") \o Decoded(h).err))]
    /\ UNCHANGED <<jobVars, accepted, returnedIds>>
    /\ ServerOnly

\* dispatch_operation for an operation id without a handler
UnsupportedOperation(h) ==
    /\ conn[h].pc = "received"
    /\ Decoded(h).kind = "Ok"
    /\ Decoded(h).operation_id
          \notin {OP_PRINT_JOB, OP_VALIDATE_JOB, OP_CANCEL_JOB, OP_GET_JOBS,
                   OP_GET_PRINTER_ATTRIBUTES}
    /\ conn' = [conn EXCEPT ![h] =
          Closed(@, Decoded(h), "not_supported",
              build_error_response(STATUS_SERVER_ERROR_OPERATION_NOT_SUPPORTED,
                  Decoded(h).request_id,
                  as_bytes("Operation 0x") \o hex04(Decoded(h).operation_id)
                      \o as_bytes(" is not supported")))]
    /\ UNCHANGED <<jobVars, accepted, returnedIds>>
    /\ ServerOnly

\* handle_print_job: the PrintJob it creates for the request of connection c
network_job(c) ==
    NewPrintJob(<<"Network", c.peer>>, document_name(c.request),
                hash_bytes(c.request.document_data), utc)

\* handle_print_job up to the fetch_add: the job is created with a fresh
\* JobId and the next IPP job-id is taken
PrintJobAssignId(h) ==
    /\ conn[h].pc = "received"
    /\ Decoded(h).kind = "Ok"
    /\ Decoded(h).operation_id = OP_PRINT_JOB
    /\ nextJob <= MaxJobs
    /\ LET a == fetch_add(next_ipp_job_id, 1)
       IN  /\ next_ipp_job_id' = a.value
           /\ conn' = [conn EXCEPT ![h] =
                         [@ EXCEPT !.pc = "assigned",
                                   !.job_id = nextJob, !.ipp_job_id = a.ret]]
    /\ nextJob' = nextJob + 1
    /\ UNCHANGED <<jobs, utc, task, uiJobs, ipp_to_internal, lastChange, sendLog,
                   accepted, returnedIds>>
    /\ ServerOnly

\* handle_print_job: map.insert(ipp_job_id, internal_job_id) under the map's
\* lock
PrintJobMapInsert(h) ==
    /\ conn[h].pc = "assigned"
    /\ ipp_to_internal' =
          [k \in (DOMAIN ipp_to_internal) \cup {conn[h].ipp_job_id} |->
              IF k = conn[h].ipp_job_id THEN conn[h].job_id
              ELSE ipp_to_internal[k]]
    /\ conn' = [conn EXCEPT ![h].pc = "mapped"]
    /\ UNCHANGED <<jobs, nextJob, utc, task, uiJobs, next_ipp_job_id, lastChange,
                   sendLog, accepted, returnedIds>>
    /\ ServerOnly

\* handle_print_job: queue.insert_job(&job) under the queue's lock, and the
\* response
PrintJobEnqueue(h) ==
    /\ conn[h].pc = "mapped"
    /\ LET c == conn[h]
           r == insert_job(jobs, c.job_id, network_job(c))
       IN  /\ jobs' = r.table
           /\ conn' = [conn EXCEPT ![h] =
                 IF r.ok
                 THEN Closed(@, c.request, "print_job_ok",
                          print_job_response(c.request.request_id, c.ipp_job_id,
                                             DEFAULT_PORT))
                 ELSE Closed(@, c.request, "enqueue_failed",
                          build_error_response(STATUS_SERVER_ERROR_INTERNAL,
                              c.request.request_id,
                              as_bytes("Failed to enqueue job: ")
                                  \o as_bytes("database error: ")
                                  \o as_bytes("insert job: ")))]
           /\ returnedIds' = IF r.ok THEN returnedIds \cup {c.ipp_job_id}
                             ELSE returnedIds
    /\ UNCHANGED <<nextJob, utc, task, uiJobs, ipp_to_internal, next_ipp_job_id,
                   lastChange, sendLog, accepted>>
    /\ ServerOnly

\* handle_print_job: the INSERT fails in the database
PrintJobEnqueueFails(h) ==
    /\ conn[h].pc = "mapped"
    /\ conn' = [conn EXCEPT ![h] =
          Closed(@, @.request, "enqueue_failed",
              build_error_response(STATUS_SERVER_ERROR_INTERNAL,
                  @.request.request_id,
                  as_bytes("Failed to enqueue job: ")
                      \o as_bytes("database error: ")
                      \o as_bytes("insert job: ")))]
    /\ UNCHANGED <<jobVars, accepted, returnedIds>>
    /\ ServerOnly

\* handle_cancel_job up to the lookup of the internal id under the map's lock
\* (the handler's locals are bound once, each to its value)
CancelJobLookup(h) ==
    /\ conn[h].pc = "received"
    /\ Decoded(h).kind = "Ok"
    /\ Decoded(h).operation_id = OP_CANCEL_JOB
    /\ \E request \in {Decoded(h)} :
       \E op_attrs \in {operation_attributes(request)} :
       \E ipp_job_id \in
            {IF op_attrs = <<>> THEN <<>>
             ELSE get_integer(op_attrs[1], as_bytes("job-id"))} :
       \E internal_id \in {IF ipp_job_id = <<>> THEN <<>>
                           ELSE lookup(ipp_to_internal, ipp_job_id[1])} :
           conn' = [conn EXCEPT ![h] =
             IF ipp_job_id = <<>>
             THEN Closed(@, request, "missing_job_id",
                      build_error_response(STATUS_CLIENT_ERROR_BAD_REQUEST,
                          request.request_id,
                          as_bytes("Missing required job-id attribute")))
             ELSE IF internal_id = <<>>
             THEN Closed([@ EXCEPT !.ipp_job_id = ipp_job_id[1]], request,
                      "not_found",
                      build_error_response(STATUS_CLIENT_ERROR_NOT_FOUND,
                          request.request_id,
                          as_bytes("Job ") \o to_string(ipp_job_id[1])
                              \o as_bytes(" not found")))
             ELSE [@ EXCEPT !.pc = "found", !.request = request,
                            !.ipp_job_id = ipp_job_id[1],
                            !.job_id = internal_id[1]]]
    /\ UNCHANGED <<jobVars, accepted, returnedIds>>
    /\ ServerOnly

\* handle_cancel_job: queue.update_status(&internal_id, Cancelled, None) under
\* the queue's lock, and the response (the JobId is printed as its number)
CancelJobUpdate(h) ==
    /\ conn[h].pc = "found"
    /\ LET c == conn[h]
           r == update_status(jobs, c.job_id, "Cancelled", <<>>, utc)
       IN  /\ jobs' = r.table
           /\ lastChange' = Changed("Cancel-Job", c.job_id, "Cancelled")
           /\ conn' = [conn EXCEPT ![h] =
                 IF r.ok
                 THEN Closed(@, c.request, "cancelled",
                          ok_response(c.request.request_id))
                 ELSE Closed(@, c.request, "cancel_failed",
                          build_error_response(STATUS_SERVER_ERROR_INTERNAL,
                              c.request.request_id,
                              as_bytes("Failed to cancel job: ")
                                  \o as_bytes("database error: ")
                                  \o as_bytes("job ") \o to_string(c.job_id)
                                  \o as_bytes(" not found")))]
    /\ UNCHANGED <<nextJob, utc, task, uiJobs, ipp_to_internal, next_ipp_job_id,
                   sendLog, accepted, returnedIds>>
    /\ ServerOnly

ServerInit ==
    /\ ServerIdle
    /\ StoreIdle
    /\ ServerRunning
    /\ ClientIdle
    /\ NoDocuments
    /\ NetIdle
    /\ JobsIdle
    /\ HealthNew
    /\ ProtoIdle
    /\ RetryIdle
    /\ CodecIdle

\* the server's handlers
ServerNext ==
    \/ \E h \in Handlers : \E c \in ReceivedConnections : Accept(h, c)
    \/ \E h \in Handlers : DecodeFails(h)
    \/ \E h \in Handlers : UnsupportedOperation(h)
    \/ \E h \in Handlers : PrintJobAssignId(h)
    \/ \E h \in Handlers : PrintJobMapInsert(h)
    \/ \E h \in Handlers : PrintJobEnqueue(h)
    \/ \E h \in Handlers : PrintJobEnqueueFails(h)
    \/ \E h \in Handlers : CancelJobLookup(h)
    \/ \E h \in Handlers : CancelJobUpdate(h)

SpecServer == ServerInit /\ [][ServerNext]_vars

\* the server's handlers, and the Jobs page of the application that the
\* server shares its job queue with
ServerUINext ==
    \/ ServerNext
    \/ RefreshJobs
    \/ \E id \in 1..MaxJobs : CancelJob(id)
    \/ \E id \in 1..MaxJobs : DeleteJob(id)

SpecServerUI == ServerInit /\ [][ServerUINext]_vars

\* the response of connection c as the client decodes it
ResponseOf(c) == parse_ipp_request(c.response)

(***************************************************************************)
(* C11. Server Print-Job: when the handler of a decoded Print-Job request  *)
(* inserts into the Job Store and the insert succeeds, exactly one record  *)
(* is added; it is Pending, its source is Network with the peer's IP       *)
(* address and its content hash is not empty; a positive protocol job-id   *)
(* is mapped to the record's internal id; and the response is a success    *)
(* response that carries that job-id and job-state pending.                *)
(***************************************************************************)
C11_PrintJobStored ==
    [][\A h \in Handlers :
         (conn[h].pc = "mapped" /\ conn'[h].pc = "closed" /\ jobs' # jobs)
         => LET c == conn[h]
                id == c.job_id
                reply == ResponseOf(conn'[h])
                job_group == group_of(reply, TAG_JOB_ATTRIBUTES)
            IN  /\ id \notin DOMAIN jobs
                /\ DOMAIN jobs' = (DOMAIN jobs) \cup {id}
                /\ \A k \in DOMAIN jobs : jobs'[k] = jobs[k]
                /\ jobs'[id].status = "Pending"
                /\ jobs'[id].source = <<"Network", c.peer>>
                /\ jobs'[id].document_hash # <<>>
                /\ c.ipp_job_id > 0
                /\ c.ipp_job_id \in DOMAIN ipp_to_internal'
                /\ ipp_to_internal'[c.ipp_job_id] = id
                /\ conn'[h].written # <<>>
                /\ reply.kind = "Ok"
                /\ reply.operation_id = STATUS_OK
                /\ reply.request_id = c.request.request_id
                /\ job_group # <<>>
                /\ get_integer(job_group[1], as_bytes("job-id")) = <<c.ipp_job_id>>
                /\ get_integer(job_group[1], as_bytes("job-state"))
                       = <<JOB_STATE_PENDING>>
      ]_vars

\* the second Print-Job, sent inside the text header with an empty
\* document by the second peer, was stored and answered with job-id 2
C11_Witness ==
    \E h \in Handlers :
        /\ conn[h].outcome = "print_job_ok"
        /\ conn[h].enveloped
        /\ conn[h].ipp_job_id = 2
        /\ conn[h].job_id \in DOMAIN jobs
        /\ jobs[conn[h].job_id].source = <<"Network", "10.0.0.7">>
        /\ jobs[conn[h].job_id].document_hash = <<"empty">>
        /\ ipp_to_internal[2] = conn[h].job_id

\* the handlers that hold an IPP job-id
HoldsId(h) == conn[h].pc \in {"assigned", "mapped"}

(***************************************************************************)
(* C12. Print-Job handlers that run at the same time on different          *)
(* connections never hold the same protocol job-id; the ids assigned so    *)
(* far are exactly 1, 2, ..., one per assignment; each handler's map entry *)
(* stays its own, and no step changes or removes an entry of the id map.   *)
(***************************************************************************)
C12_DistinctJobIds ==
    /\ [](/\ \A h1, h2 \in Handlers :
                h1 # h2 /\ HoldsId(h1) /\ HoldsId(h2)
                    => conn[h1].ipp_job_id # conn[h2].ipp_job_id
          /\ \A h \in Handlers :
                conn[h].pc = "mapped"
                    => /\ conn[h].ipp_job_id \in DOMAIN ipp_to_internal
                       /\ ipp_to_internal[conn[h].ipp_job_id] = conn[h].job_id
          /\ (DOMAIN ipp_to_internal)
                \cup {conn[h].ipp_job_id :
                        h \in {g \in Handlers : conn[g].pc = "assigned"}}
               = 1..(next_ipp_job_id - 1)
          /\ \A m, n \in DOMAIN ipp_to_internal :
                m # n => ipp_to_internal[m] # ipp_to_internal[n])
    /\ [][\A n \in DOMAIN ipp_to_internal :
             /\ n \in DOMAIN ipp_to_internal'
             /\ ipp_to_internal'[n] = ipp_to_internal[n]]_vars

\* two Print-Job handlers at the same time, holding the ids 1 and 2, the
\* later one already in the map
C12_Witness ==
    /\ conn["h1"].pc = "assigned"
    /\ conn["h1"].ipp_job_id = 1
    /\ conn["h2"].pc = "mapped"
    /\ conn["h2"].ipp_job_id = 2

\* the job-id a decoded Cancel-Job request names, as an Option
CancelledId(request) ==
    IF request.kind = "Ok" /\ request.operation_id = OP_CANCEL_JOB
          /\ operation_attributes(request) # <<>>
    THEN get_integer(operation_attributes(request)[1], as_bytes("job-id"))
    ELSE <<>>

(***************************************************************************)
(* C13. Server Cancel-Job with an integer job-id that is not in the id map *)
(* is answered with status not-found (0x0406), and its handler changes no  *)
(* Job Store record and no entry of the id map.                            *)
(***************************************************************************)
C13_CancelUnknownJob ==
    [][\A h \in Handlers :
         (/\ conn[h].pc = "received"
          /\ CancelledId(conn[h].request) # <<>>
          /\ CancelledId(conn[h].request)[1] \notin DOMAIN ipp_to_internal
          /\ conn'[h] # conn[h])
         => /\ conn'[h].pc = "closed"
            /\ ResponseOf(conn'[h]).kind = "Ok"
            /\ ResponseOf(conn'[h]).operation_id = STATUS_CLIENT_ERROR_NOT_FOUND
            /\ ResponseOf(conn'[h]).request_id = conn[h].request.request_id
            /\ jobs' = jobs
            /\ ipp_to_internal' = ipp_to_internal
      ]_vars

\* Cancel-Job for job-id 2 was answered not-found while job-id 1 is in the
\* map and its job is stored
C13_Witness ==
    \E h \in Handlers :
        /\ conn[h].outcome = "not_found"
        /\ conn[h].ipp_job_id = 2
        /\ DOMAIN ipp_to_internal = {1}
        /\ ipp_to_internal[1] \in DOMAIN jobs

(***************************************************************************)
(* C14. Server Cancel-Job with a job-id that a Print-Job response of this  *)
(* server carried sets exactly that job's status to Cancelled, changes no  *)
(* other job, and is answered with a success response.                     *)
(* The code does not keep this: the id map keeps the entry of a job that   *)
(* has been deleted from the Job Store, and Cancel-Job for it is answered  *)
(* with server-error-internal.                                             *)
(***************************************************************************)
C14_CancelKnownJob ==
    [][\A h \in Handlers :
         (/\ conn[h].pc = "found"
          /\ conn[h].ipp_job_id \in returnedIds
          /\ conn'[h].pc = "closed")
         => LET id == ipp_to_internal[conn[h].ipp_job_id]
            IN  /\ id \in DOMAIN jobs'
                /\ jobs'[id].status = "Cancelled"
                /\ DOMAIN jobs' = DOMAIN jobs
                /\ \A k \in (DOMAIN jobs) \ {id} : jobs'[k] = jobs[k]
                /\ ResponseOf(conn'[h]).operation_id = STATUS_OK
      ]_vars

(***************************************************************************)
(* C15. When decoding of a received request fails, the handler sends       *)
(* exactly one response; the response decodes, has status bad-request      *)
(* (0x0400) and carries the request id of the request's header when the 8  *)
(* header bytes were there, and 0 when they were not.                      *)
(* The code does not keep this: the response always carries request id 0.  *)
(***************************************************************************)
C15_BadRequestEchoesRequestId ==
    \A h \in Handlers :
        conn[h].outcome = "malformed"
        => LET body == ipp_body(conn[h].buf)
               reply == ResponseOf(conn[h])
           IN  /\ conn[h].written \in {conn[h].response,
                                       send_response(conn[h].response)}
               /\ reply.kind = "Ok"
               /\ reply.operation_id = STATUS_CLIENT_ERROR_BAD_REQUEST
               /\ reply.request_id =
                     IF Len(body) >= 8 THEN u32_from_be_bytes(slice(body, 4, 8))
                     ELSE 0

(***************************************************************************)
(* C19. The response has the envelope style of its request: a request that *)
(* arrived inside the text header is answered with the text header and the *)
(* binary response, a request that arrived as raw binary with the binary   *)
(* response only.                                                          *)
(* The code does not keep this: every response is sent inside the header.  *)
(***************************************************************************)
C19_ResponseEnvelopeMatches ==
    \A h \in Handlers :
        conn[h].pc = "closed"
        => conn[h].written = IF conn[h].enveloped
                             THEN send_response(conn[h].response)
                             ELSE conn[h].response

(***************************************************************************)
(* C20. A request sent without the text header is decoded from byte 0 of   *)
(* the received buffer, whatever bytes its values and its document hold,   *)
(* CR LF CR LF included: the decoded operation, request id and document    *)
(* are those the client encoded.                                           *)
(* The code does not keep this: CR LF CR LF anywhere in the buffer is      *)
(* taken for the end of a text header, and decoding starts after it.       *)
(***************************************************************************)
C20_RawRequestDecodedWhole ==
    \A h \in Handlers :
        (/\ conn[h].pc # "idle"
         /\ ~conn[h].enveloped
         /\ conn[h].client.wellformed)
        => /\ conn[h].request.kind = "Ok"
           /\ conn[h].request.operation_id = conn[h].client.operation_id
           /\ conn[h].request.request_id = conn[h].client.request_id
           /\ conn[h].request.document_data = conn[h].client.document_data

\* C27: after a Print-Job request that got a success response, the content
\* store holds the request's document payload under the hash recorded in the
\* stored job, so that a lookup by that hash gives back these bytes.
C27_PayloadStoredUnderHash ==
    \A h \in Handlers :
        (/\ conn[h].outcome = "print_job_ok"
         /\ conn[h].job_id \in DOMAIN jobs)
            => LET hash == jobs[conn[h].job_id].document_hash
               IN  /\ hash \in DOMAIN documents
                   /\ documents[hash] = conn[h].request.document_data

(***************************************************************************)
(* ipp_client.rs : IppClient                                               *)
(***************************************************************************)

ClientOnly ==
    UNCHANGED <<healthVars, protoVars, retryVars, jobVars, codecVars,
               serverVars, storeCall, documents, ippServer, net>>

\* the seconds a call is followed while the endpoint stays silent
MaxWaited == 61

\* AppConfig::default
print_timeout_secs == 60
query_timeout_secs == 15

\* the methods of IppClient
ClientOperations ==
    {"Get-Printer-Attributes", "Print-Job", "Get-Jobs", "Cancel-Job"}

\* what an endpoint answers: the response's status and the job-id attribute
\* of its job attributes group, if any
ClientReplies ==
    {[is_success |-> TRUE, job_id |-> <<7>>],
     [is_success |-> TRUE, job_id |-> <<>>],
     [is_success |-> FALSE, job_id |-> <<>>]}

\* what a method returns for the response it received
client_result(op, reply) ==
    IF ~reply.is_success
    THEN [kind |-> "Err", error |-> "IppRequest",
          message |-> <<op, " returned status">>]
    ELSE IF op = "Print-Job" /\ reply.job_id = <<>>
    THEN [kind |-> "Err", error |-> "IppRequest",
          message |-> <<"Print-Job response missing job-id attribute">>]
    ELSE [kind |-> "Ok", error |-> "", message |-> <<>>]

\* a method builds its operation and a new AsyncIppClient, and awaits
\* client.send(operation)
ClientSend(op) ==
    /\ rpc.pc = "idle"
    /\ rpc' = [pc |-> "sent", op |-> op, waited |-> 0, sends |-> 1,
               result |-> [kind |-> "none"]]
    /\ ClientOnly

\* a second passes and the send future is still pending: nothing in the
\* method bounds the await
ClientWaits ==
    /\ rpc.pc = "sent"
    /\ rpc.waited < MaxWaited
    /\ rpc' = [rpc EXCEPT !.waited = @ + 1]
    /\ ClientOnly

\* the endpoint answers and the method returns
EndpointAnswers(reply) ==
    /\ rpc.pc = "sent"
    /\ rpc' = [rpc EXCEPT !.pc = "returned",
                          !.result = client_result(rpc.op, reply)]
    /\ ClientOnly

\* the transport fails (connection refused or reset): send returns Err, which
\* map_err turns into PresswerkError::IppRequest
TransportFails ==
    /\ rpc.pc = "sent"
    /\ rpc' = [rpc EXCEPT !.pc = "returned",
                          !.result = [kind |-> "Err", error |-> "IppRequest",
                                      message |-> <<rpc.op, ": ">>]]
    /\ ClientOnly

ClientInit ==
    /\ HealthNew
    /\ ProtoIdle
    /\ RetryIdle
    /\ JobsIdle
    /\ CodecIdle
    /\ ServerIdle
    /\ RestIdle

ClientNext ==
    \/ \E op \in ClientOperations : ClientSend(op)
    \/ ClientWaits
    \/ \E reply \in ClientReplies : EndpointAnswers(reply)
    \/ TransportFails

SpecClient == ClientInit /\ [][ClientNext]_vars

\* C26: a Client operation whose endpoint accepted the request but does not
\* answer is not left waiting beyond its own timeout: a capability query is
\* over once the query timeout has passed, a document submission once the
\* print timeout has passed, and the request was sent once.
C26_OperationEndsAtItsTimeout ==
    rpc.pc = "sent"
        => /\ rpc.sends = 1
           /\ rpc.waited <= (IF rpc.op = "Print-Job" THEN print_timeout_secs
                             ELSE query_timeout_secs)

(***************************************************************************)
(* ipp_server.rs : IppServer start and stop                                *)
(***************************************************************************)

\* what start() and stop() leave alone besides the server's own state
LifeOnly ==
    UNCHANGED <<healthVars, protoVars, retryVars, codecVars, serverVars,
               storeCall, documents, rpc, net>>

\* the accept loop accepts at most MaxLifeAccepted connections in one run
MaxLifeAccepted == 2

\* the connections that arrive while the server is started and stopped: a
\* request that does not parse, a Print-Job, a Cancel-Job and an operation
\* the server does not support
LifeConnections ==
    {c \in ReceivedConnections :
        \/ c.buf = <<1, 1, 0>>
        \/ c.client.request_id \in {20, 31, 50}}

\* Notify::notify_one that wakes nobody and stores nothing
notify_one_lost(server) == server

\* Notify::notify_one: with no task polled as a waiter the permit is stored,
\* and the next notified() completes at once; a waiter that was notified and
\* is dropped by select! hands the notification back
notify_one(server) == [server EXCEPT !.permit = TRUE]

\* start(): the listener is bound, a new SharedState is made (job-ids from 1,
\* an empty map), the accept loop is spawned, the status is Running
ServerStart ==
    /\ ippServer.status # "Running"
    /\ ippServer.accept_loop = "none"
    /\ ippServer' = [ippServer EXCEPT !.status = "Running",
                                      !.accept_loop = "select"]
    /\ next_ipp_job_id' = 1
    /\ ipp_to_internal' = <<>>
    /\ UNCHANGED <<jobs, nextJob, utc, task, uiJobs, lastChange, sendLog>>
    /\ LifeOnly

\* start() when the port cannot be bound: the error is returned after the
\* status was set to Starting
ServerStartFails ==
    /\ ippServer.status # "Running"
    /\ ippServer.accept_loop = "none"
    /\ ippServer' = [ippServer EXCEPT !.status = "Starting"]
    /\ UNCHANGED jobVars
    /\ LifeOnly

\* stop() on a server that is not Running returns Ok at once
ServerStopNotRunning ==
    /\ ippServer.status # "Running"
    /\ ippServer.stop = "idle"
    /\ ippServer' = [ippServer EXCEPT !.stop = "not running"]
    /\ UNCHANGED jobVars
    /\ LifeOnly

\* stop() on a Running server: shutdown_signal.notify_one(), then it awaits
\* the accept loop's JoinHandle
ServerStop ==
    /\ ippServer.status = "Running"
    /\ ippServer.stop \in {"idle", "not running"}
    /\ ippServer' = [notify_one(ippServer) EXCEPT !.stop = "joining"]
    /\ UNCHANGED jobVars
    /\ LifeOnly

\* accept_loop, the shutdown branch of select!: notified() takes the permit
\* and the loop breaks; the task ends and the listener is dropped
LoopShutdown ==
    /\ ippServer.accept_loop = "select"
    /\ ippServer.permit
    /\ ippServer' = [ippServer EXCEPT !.permit = FALSE,
                                      !.accept_loop = "exited"]
    /\ UNCHANGED jobVars
    /\ LifeOnly

\* accept_loop, the accept branch of select!: the connection is handed to a
\* task of its own with tokio::spawn, whose JoinHandle is dropped
LoopAccept(h, c) ==
    /\ ippServer.accept_loop = "select"
    /\ accepted < MaxLifeAccepted
    /\ c.request.kind = "Ok" /\ c.request.operation_id = OP_PRINT_JOB
          => nextJob + Cardinality({g \in Handlers :
                                      /\ conn[g].pc = "received"
                                      /\ Decoded(g).kind = "Ok"
                                      /\ Decoded(g).operation_id = OP_PRINT_JOB})
                <= MaxJobs
    /\ Accept(h, c)

\* stop(), after the JoinHandle resolved: the status is Stopped
StopReturns ==
    /\ ippServer.stop = "joining"
    /\ ippServer.accept_loop = "exited"
    /\ ippServer' = [ippServer EXCEPT !.status = "Stopped",
                                      !.stop = "returned"]
    /\ UNCHANGED jobVars
    /\ LifeOnly

\* the next step of the connection task h
TaskStep(h) ==
    \/ DecodeFails(h)
    \/ UnsupportedOperation(h)
    \/ PrintJobAssignId(h)
    \/ PrintJobMapInsert(h)
    \/ PrintJobEnqueue(h)
    \/ PrintJobEnqueueFails(h)
    \/ CancelJobLookup(h)
    \/ CancelJobUpdate(h)

LifeInit ==
    /\ HealthNew
    /\ ProtoIdle
    /\ RetryIdle
    /\ JobsIdle
    /\ CodecIdle
    /\ ServerIdle
    /\ RestIdle

LifeNext ==
    \/ ServerStart
    \/ ServerStartFails
    \/ ServerStopNotRunning
    \/ ServerStop
    \/ LoopShutdown
    \/ \E h \in Handlers : \E c \in LifeConnections : LoopAccept(h, c)
    \/ StopReturns
    \/ \E h \in Handlers : TaskStep(h)

\* the tokio runtime keeps polling every task that can make progress: the
\* accept loop (whose select! polls its branches in random order), the task
\* that called stop(), and each connection task
SpecLife ==
    /\ LifeInit
    /\ [][LifeNext]_vars
    /\ WF_vars(LoopShutdown)
    /\ WF_vars(StopReturns)
    /\ \A h \in Handlers : WF_vars(TaskStep(h))

\* a connection task that was spawned and has not returned
InFlight(h) == conn[h].pc \notin {"idle", "closed"}

VALUE_TAG_NAME == 66
JOB_STATE_PROCESSING == 5
JOB_STATE_CANCELED == 7
JOB_STATE_ABORTED == 8
JOB_STATE_COMPLETED == 9

\* job_status_to_ipp_state (the match has no arm for RetryPending, a status
\* that nothing sets)
job_status_to_ipp_state(status) ==
    CASE status = "Pending" -> JOB_STATE_PENDING
      [] status = "Held" -> JOB_STATE_HELD
      [] status = "Processing" -> JOB_STATE_PROCESSING
      [] status = "Completed" -> JOB_STATE_COMPLETED
      [] status = "Cancelled" -> JOB_STATE_CANCELED
      [] status = "Failed" -> JOB_STATE_ABORTED

\* job_state_reason, as bytes: "none", "job-hold-until-specified",
\* "job-printing", "job-completed-successfully", "job-canceled-by-user",
\* "aborted-by-system"
job_state_reason(status) ==
    CASE status = "Pending" -> as_bytes("none")
      [] status = "Held" ->
            <<106, 111, 98, 45, 104, 111, 108, 100, 45, 117, 110, 116, 105,
              108, 45, 115, 112, 101, 99, 105, 102, 105, 101, 100>>
      [] status = "Processing" ->
            <<106, 111, 98, 45, 112, 114, 105, 110, 116, 105, 110, 103>>
      [] status = "Completed" ->
            <<106, 111, 98, 45, 99, 111, 109, 112, 108, 101, 116, 101, 100,
              45, 115, 117, 99, 99, 101, 115, 115, 102, 117, 108, 108, 121>>
      [] status = "Cancelled" ->
            <<106, 111, 98, 45, 99, 97, 110, 99, 101, 108, 101, 100, 45, 98,
              121, 45, 117, 115, 101, 114>>
      [] status = "Failed" ->
            <<97, 98, 111, 114, 116, 101, 100, 45, 98, 121, 45, 115, 121, 115,
              116, 101, 109>>

\* job.document_name as bytes: a job of the application is named "doc", a
\* job of the network carries the bytes of its request
document_name_bytes(job) ==
    IF job.source = <<"Local">> THEN <<100, 111, 99>> ELSE job.document_name

\* id_map.get(&job.id).copied().unwrap_or(0), id_map being ipp_to_internal
\* turned around
ipp_id_of(map, id) ==
    LET keys == {k \in DOMAIN map : map[k] = id}
    IN  IF keys = {} THEN 0 ELSE CHOOSE k \in keys : TRUE

\* handle_get_jobs: one job-attributes group per row, in the order of rows
RECURSIVE job_groups(_, _, _, _, _)
job_groups(b, rows, table, map, printer_uri) ==
    IF rows = <<>> THEN b
    ELSE LET job == table[rows[1]]
             ipp_id == ipp_id_of(map, rows[1])
             b0 == begin_group(b, TAG_JOB_ATTRIBUTES)
             b1 == write_attr(b0, VALUE_TAG_INTEGER, as_bytes("job-id"),
                              i32_to_be_bytes(ipp_id))
             b2 == write_attr(b1, VALUE_TAG_URI, as_bytes("job-uri"),
                              printer_uri \o as_bytes("/jobs/")
                                  \o to_string(ipp_id))
             b3 == write_attr(b2, VALUE_TAG_NAME, as_bytes("job-name"),
                              document_name_bytes(job))
             b4 == write_attr(b3, VALUE_TAG_ENUM, as_bytes("job-state"),
                              i32_to_be_bytes(job_status_to_ipp_state(job.status)))
             b5 == write_attr(b4, VALUE_TAG_KEYWORD,
                              as_bytes("job-state-reasons"),
                              job_state_reason(job.status))
         IN  job_groups(b5, Tail(rows), table, map, printer_uri)

\* the response of handle_get_jobs on success
get_jobs_response(request_id, rows, table, map, port) ==
    build(job_groups(response_head(STATUS_OK, request_id,
                                   as_bytes("successful-ok")),
                     rows, table, map,
                     as_bytes("ipp://localhost:") \o to_string(port)
                         \o as_bytes("/ipp/print")))

\* handle_get_jobs: queue.get_all_jobs() under the queue's lock, the id map
\* read under the map's lock, and the response
GetJobs(h) ==
    /\ conn[h].pc = "received"
    /\ Decoded(h).kind = "Ok"
    /\ Decoded(h).operation_id = OP_GET_JOBS
    /\ \E rows \in get_all_jobs(jobs) :
          conn' = [conn EXCEPT ![h] =
              Closed(@, Decoded(h), "get_jobs_ok",
                  get_jobs_response(Decoded(h).request_id, rows, jobs,
                                    ipp_to_internal, DEFAULT_PORT))]
    /\ UNCHANGED <<jobVars, accepted, returnedIds>>
    /\ ServerOnly

\* the connections of the Get-Jobs runs: a Print-Job named "Test", a
\* Cancel-Job of job-id 1 and a Get-Jobs
GetJobsConnections ==
    {c \in ReceivedConnections : c.client.request_id \in {22, 31}}
        \cup
    {[NoConnection EXCEPT !.pc = "received", !.buf = r.buf,
                          !.enveloped = r.enveloped, !.client = r.client,
                          !.request = parse_ipp_request(ipp_body(r.buf))] :
        r \in {Request(FALSE, OP_GET_JOBS, 60, <<>>, <<>>)}}

\* the server's Print-Job, Cancel-Job and Get-Jobs handlers, and the
\* application printing documents of its own into the same queue
GetJobsNext ==
    \/ \E h \in Handlers : \E c \in GetJobsConnections : Accept(h, c)
    \/ \E h \in Handlers : PrintJobAssignId(h)
    \/ \E h \in Handlers : PrintJobMapInsert(h)
    \/ \E h \in Handlers : PrintJobEnqueue(h)
    \/ \E h \in Handlers : CancelJobLookup(h)
    \/ \E h \in Handlers : CancelJobUpdate(h)
    \/ \E h \in Handlers : GetJobs(h)
    \/ \E uri \in PrinterUris : PrintDocument(uri)

SpecGetJobs == ServerInit /\ [][GetJobsNext]_vars

\* C31: the response of Get-Jobs has exactly one job-attributes group per
\* record of the Job Store, and every record has a group with the job's own
\* protocol job-id (the key under which the id map holds the job, which for
\* a job of Print-Job is the id Print-Job returned), its name, and the
\* protocol state and reason of its status.
C31_GetJobsListsEveryJob ==
    [][\A h \in Handlers :
         (/\ conn[h].pc = "received"
          /\ conn'[h].pc = "closed"
          /\ conn'[h].outcome = "get_jobs_ok")
            => LET IsJob(g) == g.delimiter = TAG_JOB_ATTRIBUTES
                   groups == SelectSeq(parse_ipp_request(conn'[h].response)
                                           .attribute_groups, IsJob)
               IN  /\ Len(groups) = Cardinality(DOMAIN jobs)
                   /\ \A id \in DOMAIN jobs :
                        \E i \in DOMAIN groups :
                        \E k \in DOMAIN ipp_to_internal :
                          /\ ipp_to_internal[k] = id
                          /\ get_integer(groups[i], as_bytes("job-id")) = <<k>>
                          /\ get_string(groups[i], as_bytes("job-name"))
                                = <<document_name_bytes(jobs[id])>>
                          /\ get_integer(groups[i], as_bytes("job-state"))
                                = <<job_status_to_ipp_state(jobs[id].status)>>
                          /\ get_string(groups[i],
                                        as_bytes("job-state-reasons"))
                                = <<job_state_reason(jobs[id].status)>>]_vars

\* C32: the error of every failed attempt of a job is appended to the job's
\* error history, in order, and stays there: the history of a stored job
\* holds the errors of all its failed transmissions, also once the job is
\* Failed.
C32_ErrorHistoryPreserved ==
    \A id \in (DOMAIN jobs) \cap (DOMAIN sendLog) :
        /\ Len(jobs[id].error_history) = Len(sendLog[id])
        /\ \A i \in DOMAIN sendLog[id] :
              jobs[id].error_history[i] = sendLog[id][i]

(***************************************************************************)
(* ipp_server.rs : a connection task, from tokio::spawn to its end         *)
(***************************************************************************)

ConnOnly ==
    UNCHANGED <<healthVars, protoVars, retryVars, jobVars, codecVars,
               serverVars, storeCall, documents, ippServer, rpc>>

MAX_REQUEST_BYTES == 67108864

\* the bytes of a request that fits the cap
RequestBytes == 200

\* the operations a stream can carry, by what their handler locks; Validate-Job
\* stands for the handlers that take no lock
TaskOperations ==
    {"Print-Job", "Cancel-Job", "Get-Jobs", "Validate-Job", "malformed"}

\* what a peer does: the request it sends, the length of its byte stream,
\* and whether it closes its sending side after the last byte. A stream
\* longer than the cap is a Print-Job whose document does not end
PeerStreams ==
    [op : TaskOperations, total : {RequestBytes}, closes : BOOLEAN]
        \cup [op : {"none"}, total : {0}, closes : {TRUE}]
        \cup [op : {"Print-Job"}, total : {MAX_REQUEST_BYTES + 1},
              closes : BOOLEAN]

\* the ways through a handler: the locks it takes, in order, and the status
\* of the response it builds if no critical section fails
HandlerPaths(op) ==
    CASE op = "Print-Job" ->
            {[plan |-> <<"map", "queue">>, answer |-> "successful-ok"]}
      [] op = "Cancel-Job" ->
            {[plan |-> <<>>, answer |-> "bad-request"],
             [plan |-> <<"map">>, answer |-> "not-found"],
             [plan |-> <<"map", "queue">>, answer |-> "successful-ok"]}
      [] op = "Get-Jobs" ->
            {[plan |-> <<"queue", "map">>, answer |-> "successful-ok"]}
      [] op = "Validate-Job" ->
            {[plan |-> <<>>, answer |-> "successful-ok"]}

\* a MutexGuard that lives on after its block
guard_kept(n, lock) == n

\* the MutexGuard goes out of scope: at the end of the if-let block, of the
\* match, or of the statement that borrowed it, or when the handler returns
\* from inside the match
guard_dropped(n, lock) == [n EXCEPT ![lock] = "none"]

\* read_to_end that returns with the first bytes
read_returns_first_bytes(sent, open) == sent > 0 \/ ~open

\* (&mut stream).take(MAX_REQUEST_BYTES).read_to_end(&mut buf) returns at the
\* end of the peer's stream or when the limit is reached
read_to_end_done(sent, open) == ~open \/ sent >= MAX_REQUEST_BYTES

\* fetch_sub only after a handle_connection that returned Ok
fetch_sub_if_ok(counter, result) ==
    IF result = "Ok" THEN counter - 1 ELSE counter

\* state.active_connections.fetch_sub(1, ..) after handle_connection, whatever
\* it returned
fetch_sub_after(counter, result) == counter - 1

\* accept_loop: tokio::spawn of the task for a connection whose peer will
\* send stream s
ConnAccepted(h, s) ==
    /\ net.task[h].pc \in {"none", "finished"}
    /\ net' = [net EXCEPT !.task[h] =
                  [NoTask EXCEPT !.pc = "spawned", !.op = s.op,
                                 !.total = s.total, !.closes = s.closes,
                                 !.open = TRUE]]
    /\ ConnOnly

\* the task starts: active_connections.fetch_add(1), then handle_connection
\* awaits read_to_end
TaskBegins(h) ==
    /\ net.task[h].pc = "spawned"
    /\ net' = [net EXCEPT !.active_connections = @ + 1,
                          !.task[h].pc = "reading"]
    /\ ConnOnly

\* the peer's bytes arrive
PeerSends(h) ==
    /\ net.task[h].pc # "none"
    /\ net.task[h].open
    /\ net.task[h].sent < net.task[h].total
    /\ net' = [net EXCEPT !.task[h].sent = net.task[h].total]
    /\ ConnOnly

\* the peer closes its sending side after its last byte
PeerCloses(h) ==
    /\ net.task[h].pc # "none"
    /\ net.task[h].open
    /\ net.task[h].closes
    /\ net.task[h].sent = net.task[h].total
    /\ net' = [net EXCEPT !.task[h].open = FALSE]
    /\ ConnOnly

\* read_to_end returns Ok(bytes_read): nothing read ends the connection, a
\* buffer that does not parse is answered bad-request, anything else is
\* dispatched to its handler (the first MAX_REQUEST_BYTES of a longer
\* stream are parsed like any buffer)
ReadCompletes(h) ==
    LET t == net.task[h]
        buf == IF t.sent < MAX_REQUEST_BYTES THEN t.sent
               ELSE MAX_REQUEST_BYTES
    IN  /\ t.pc = "reading"
        /\ read_to_end_done(t.sent, t.open)
        /\ \/ /\ buf = 0
              /\ net' = [net EXCEPT !.task[h].pc = "handled",
                                    !.task[h].result = "Ok"]
           \/ /\ buf > 0
              /\ t.op = "malformed"
              /\ net' = [net EXCEPT !.task[h].pc = "sending",
                                    !.task[h].buf = buf,
                                    !.task[h].answer = "bad-request"]
           \/ /\ buf > 0
              /\ t.op # "malformed"
              /\ \E path \in HandlerPaths(t.op) :
                    net' = [net EXCEPT !.task[h].pc = "dispatch",
                                       !.task[h].buf = buf,
                                       !.task[h].plan = path.plan,
                                       !.task[h].answer = path.answer]
        /\ ConnOnly

\* read_to_end returns Err (the connection was reset): handle_connection
\* returns the error
ReadFails(h) ==
    /\ net.task[h].pc = "reading"
    /\ net.task[h].open
    /\ net' = [net EXCEPT !.task[h].pc = "handled", !.task[h].open = FALSE,
                          !.task[h].result = "Err"]
    /\ ConnOnly

\* the handler locks ipp_to_internal or job_queue, which is free
Acquire(h) ==
    LET t == net.task[h]
    IN  /\ t.pc = "dispatch"
        /\ t.plan # <<>>
        /\ net[Head(t.plan)] = "none"
        /\ net' = [net EXCEPT ![Head(t.plan)] = h, !.task[h].pc = "locked"]
        /\ ConnOnly

\* the call under the lock succeeds and the guard is dropped (insert_job makes
\* the job of a Print-Job)
CriticalSectionDone(h) ==
    LET t == net.task[h]
        lock == Head(t.plan)
    IN  /\ t.pc = "locked"
        /\ net' = [guard_dropped(net, lock) EXCEPT
                      !.task[h].pc = "dispatch",
                      !.task[h].plan = Tail(t.plan),
                      !.task[h].job = (t.op = "Print-Job" /\ lock = "queue")
                                          \/ t.job]
        /\ ConnOnly

\* insert_job, update_status or get_all_jobs returns Err: the handler returns
\* an internal-error response from inside the match
CriticalSectionFails(h) ==
    LET t == net.task[h]
        lock == Head(t.plan)
    IN  /\ t.pc = "locked"
        /\ lock = "queue"
        /\ net' = [guard_dropped(net, lock) EXCEPT
                      !.task[h].pc = "sending",
                      !.task[h].plan = <<>>,
                      !.task[h].answer = "internal-error"]
        /\ ConnOnly

\* the handler returns its response and handle_connection awaits
\* send_response
HandlerReturns(h) ==
    /\ net.task[h].pc = "dispatch"
    /\ net.task[h].plan = <<>>
    /\ net' = [net EXCEPT !.task[h].pc = "sending"]
    /\ ConnOnly

\* send_response wrote the response and handle_connection returns Ok
ResponseSent(h) ==
    /\ net.task[h].pc = "sending"
    /\ net' = [net EXCEPT !.task[h].pc = "handled",
                          !.task[h].response = net.task[h].answer,
                          !.task[h].result = "Ok"]
    /\ ConnOnly

\* a write of send_response fails and handle_connection returns the error
ResponseFails(h) ==
    /\ net.task[h].pc = "sending"
    /\ net' = [net EXCEPT !.task[h].pc = "handled", !.task[h].result = "Err"]
    /\ ConnOnly

\* the task logs an error if there was one, and ends with
\* active_connections.fetch_sub(1)
TaskEnds(h) ==
    /\ net.task[h].pc = "handled"
    /\ net' = [net EXCEPT
                  !.active_connections =
                      fetch_sub_after(@, net.task[h].result),
                  !.task[h].pc = "finished"]
    /\ ConnOnly

ConnInit ==
    /\ HealthNew
    /\ ProtoIdle
    /\ RetryIdle
    /\ JobsIdle
    /\ CodecIdle
    /\ ServerIdle
    /\ RestIdle

ConnNext ==
    \/ \E h \in Handlers : \E s \in PeerStreams : ConnAccepted(h, s)
    \/ \E h \in Handlers : TaskBegins(h)
    \/ \E h \in Handlers : PeerSends(h)
    \/ \E h \in Handlers : PeerCloses(h)
    \/ \E h \in Handlers : ReadCompletes(h)
    \/ \E h \in Handlers : ReadFails(h)
    \/ \E h \in Handlers : Acquire(h)
    \/ \E h \in Handlers : CriticalSectionDone(h)
    \/ \E h \in Handlers : CriticalSectionFails(h)
    \/ \E h \in Handlers : HandlerReturns(h)
    \/ \E h \in Handlers : ResponseSent(h)
    \/ \E h \in Handlers : ResponseFails(h)
    \/ \E h \in Handlers : TaskEnds(h)

SpecConn == ConnInit /\ [][ConnNext]_vars

\* the locks task h holds
HeldBy(h) == {lock \in {"queue", "map"} : net[lock] = h}

\* C33: a connection task holds neither the Job Store lock nor the id-map
\* lock while it awaits its socket, reading the request or writing the
\* response, whatever the operation and also on the error paths; nor does
\* it keep one after it has ended.
C33_NoLockAcrossSocketIO ==
    \A h \in Handlers :
        net.task[h].pc \in {"spawned", "reading", "sending", "handled",
                            "finished"}
            => HeldBy(h) = {}

\* a task is writing the internal-error response of a failed call under the
\* queue lock while the other task holds that lock
C33_Witness ==
    \E h, g \in Handlers :
        /\ net.task[h].pc = "sending"
        /\ net.task[h].answer = "internal-error"
        /\ net.queue = g
        /\ g # h

\* C34: a connection whose byte stream is longer than MAX_REQUEST_BYTES is
\* rejected: its task creates no job and sends no success response.
C34_OversizeRequestRejected ==
    \A h \in Handlers :
        net.task[h].total > MAX_REQUEST_BYTES
            => /\ ~net.task[h].job
               /\ net.task[h].response # "successful-ok"

\* the connection tasks that have started and have not finished
Started ==
    {h \in Handlers :
        net.task[h].pc \in {"reading", "dispatch", "locked", "sending",
                            "handled"}}

\* C38: active_connections is the number of connection tasks that have
\* started and not yet finished, whether their handling ends in success or
\* in an error; it is never negative, and it is 0 once every accepted
\* connection has finished.
C38_ActiveConnectionsCounts ==
    /\ net.active_connections = Cardinality(Started)
    /\ net.active_connections >= 0
    /\ (\A h \in Handlers : net.task[h].pc \in {"none", "finished"})
          => net.active_connections = 0

\* both tasks have finished, one after an error and one after success, and
\* the counter is back at 0
C38_Witness ==
    /\ net.active_connections = 0
    /\ \E h, g \in Handlers :
          /\ net.task[h].pc = "finished"
          /\ net.task[h].result = "Err"
          /\ net.task[g].pc = "finished"
          /\ net.task[g].result = "Ok"
          /\ net.task[g].response = "successful-ok"

\* C39: a request is decoded and answered only after read_to_end has come to
\* the end of the peer's stream or to MAX_REQUEST_BYTES: until then the
\* task neither dispatches nor writes a response byte, so a peer that has
\* sent a whole request and keeps its sending side open gets no answer.
C39_AnswerOnlyAfterEndOfStream ==
    \A h \in Handlers :
        /\ (\/ net.task[h].pc \in {"dispatch", "locked", "sending"}
            \/ net.task[h].response # "none")
              => (~net.task[h].open \/ net.task[h].sent >= MAX_REQUEST_BYTES)
        /\ (/\ net.task[h].open
            /\ net.task[h].sent < MAX_REQUEST_BYTES)
              => (/\ net.task[h].response = "none"
                  /\ net.task[h].pc \in {"none", "spawned", "reading",
                                         "finished"})

\* a peer has sent its whole request and keeps its sending side open; its
\* task is still reading while the other connection has been answered
C39_Witness ==
    \E h, g \in Handlers :
        /\ net.task[h].pc = "reading"
        /\ net.task[h].op = "Get-Jobs"
        /\ net.task[h].sent = net.task[h].total
        /\ ~net.task[h].closes
        /\ net.task[h].open
        /\ net.task[g].response = "successful-ok"

\* C35: for every endpoint the tracker holds a record of, whatever calls were
\* made, the circuit is Closed exactly if consecutive_failures is below 3,
\* and an Open or HalfOpen circuit has its opened_at set.
C35_ClosedIffBelowThreshold ==
    \A uri \in DOMAIN printers :
        /\ (printers[uri].state = "Closed")
              <=> (printers[uri].consecutive_failures < 3)
        /\ printers[uri].state \in {"Open", "HalfOpen"}
              => printers[uri].opened_at # None

\* one endpoint is being probed after its cooldown, another has failed twice
\* and is still Closed
C35_Witness ==
    \E uri, other \in DOMAIN printers :
        /\ printers[uri].state = "HalfOpen"
        /\ printers[uri].consecutive_failures >= 3
        /\ printers[uri].opened_at # None
        /\ printers[other].state = "Closed"
        /\ printers[other].consecutive_failures = 2

\* C36: a job that was set to Cancelled before the send task that
\* print_document spawned for it has started its transmission is not
\* transmitted, and its status does not go on from Cancelled to Processing,
\* Completed or Failed.
C36_CancelledJobNotSent ==
    [][\A id \in (DOMAIN jobs) \cap (DOMAIN task) :
         (/\ jobs[id].status = "Cancelled"
          /\ task[id].pc = "spawned"
          /\ id \in DOMAIN jobs')
            => /\ task'[id].sent = task[id].sent
               /\ jobs'[id].status
                     \notin {"Processing", "Completed", "Failed"}]_vars

\* C37: each entry of the protocol-id map refers to a job that exists in the
\* Job Store, whenever the Print-Job that inserted the entry is no longer
\* between its map insert and its store insert: also after a Print-Job whose
\* store insert failed and after a job was deleted through the application.
C37_MapEntriesReferToStoredJobs ==
    \A k \in DOMAIN ipp_to_internal :
        (\A h \in Handlers : ~(conn[h].pc = "mapped" /\ conn[h].ipp_job_id = k))
            => ipp_to_internal[k] \in DOMAIN jobs

\* C40: status is Starting only while a start() call is in progress.  start()
\* is one step here, so between steps no call is in progress and the status
\* is not Starting, also after a start() that returned an error.
C40_StartingOnlyDuringStart ==
    ippServer.status # "Starting"

=============================================================================
